---- MODULE Spec2Model ----
(***************************************************************************)
(* Model of the scoring / screening engine of src/trading_system.py        *)
(* (class TradingSystem).                                                  *)
(*                                                                         *)
(* Numbers.  Scores are Python floats in the source.  Here a score is an   *)
(* integer number of 1/Scale points (Scale = 3000 makes every weighted     *)
(* category score, every blend 0.6 f + 0.4 t and the three-decimal values  *)
(* of the boundary examples integers), so the arithmetic is the exact      *)
(* rational one and float round-off is not modelled (the one place where   *)
(* it shows: a fundamental total of 250/3 blends to 49.99999999999999 in   *)
(* floats and to 50 here).  Ratio metrics (PE,                             *)
(* price/book, debt/equity, current ratio, ROE, ROA, margins, growth,      *)
(* beta) are integers in hundredths: 0.25 is 25, 10.0 is 1000.             *)
(***************************************************************************)
EXTENDS Integers, Sequences, FiniteSets, TLC

VARIABLES
    min_market_cap,   \* TradingSystem.min_market_cap
    min_volume,       \* TradingSystem.min_volume
    op,               \* the call that has been made on the object, "none" before
    fd_arg,           \* fundamental_score: the metrics dict passed in
    fd_ret,           \* fundamental_score: the returned (total, breakdown)
    td_arg,           \* technical_score: the frame passed in
    td_ret,           \* technical_score: the returned (total, breakdown)
    an_arg,           \* analyze_stock: the symbol and what the provider returns
    analysis,         \* analyze_stock: the returned analysis dict
    sc_arg,           \* screen_stocks: the symbols and what the provider returns
    sc_ret,           \* screen_stocks: the returned list, and the symbols analysed
    an_fail,          \* analyze_stock: the statement that raised, 0 when none did
    sg_arg,           \* generate_signals: the frame passed in
    sg_ret,           \* generate_signals: the returned list
    se_arg,           \* analyze_sector_performance: what the provider returns
    se_ret,           \* analyze_sector_performance: the returned dict
    pf_arg,           \* generate_portfolio_recommendations: the two arguments
    pf_ret,           \* generate_portfolio_recommendations: the returned dict
    dash,             \* the dashboard sessions using the cached TradingSystem
    ms_arg,           \* a bucket table: the metric and the value passed in
    ms_ret,           \* a bucket table: the returned points, as [score]
    cs_arg,           \* a category scorer: the category and the frame passed in
    cs_ret,           \* a category scorer: the returned raw score, as [score]
    coll              \* DataCollector.get_multiple_stocks_data: the call in progress

vars == <<min_market_cap, min_volume, op, fd_arg, fd_ret, td_arg, td_ret,
          an_arg, analysis, sc_arg, sc_ret, an_fail, sg_arg, sg_ret, se_arg,
          se_ret, pf_arg, pf_ret, dash, coll, ms_arg, ms_ret,
          cs_arg, cs_ret, coll>>

(***************************************************************************)
(* Units and helpers                                                       *)
(***************************************************************************)
Scale == 3000

\* A metric value that is not a number (None or a string in the provider's
\* info dict): every ordering comparison with it raises TypeError.
NotNumber == -999999

\* The outcome of a computation that raised an exception instead of
\* returning a number (scores are never negative).
Raised == -1

\* dict.get(key, default)
Get(d, key, default) == IF key \in DOMAIN d THEN d[key] ELSE default

Min2(a, b) == IF a <= b THEN a ELSE b

\* Sum of the first n elements of a sequence of numbers, left to right
\* (the running "score += ..." of both scorers).
RECURSIVE SumFirst(_, _)
SumFirst(seq, n) == IF n = 0 THEN 0 ELSE SumFirst(seq, n - 1) + seq[n]

(***************************************************************************)
(* Fundamental scorer: the bucket tables                                   *)
(* Arguments are hundredths; results are whole points 0..100.              *)
(***************************************************************************)
\* Variant: the 60 and 40 buckets exchanged.
_score_pe_ratio_buckets_exchanged(pe_ratio) ==
    IF pe_ratio <= 0 \/ pe_ratio > 10000 THEN 0
    ELSE IF pe_ratio <= 1500 THEN 100
    ELSE IF pe_ratio <= 2500 THEN 80
    ELSE IF pe_ratio <= 3500 THEN 40
    ELSE IF pe_ratio <= 5000 THEN 60
    ELSE 20

_score_pe_ratio(pe_ratio) ==
    IF pe_ratio <= 0 \/ pe_ratio > 10000 THEN 0
    ELSE IF pe_ratio <= 1500 THEN 100
    ELSE IF pe_ratio <= 2500 THEN 80
    ELSE IF pe_ratio <= 3500 THEN 60
    ELSE IF pe_ratio <= 5000 THEN 40
    ELSE 20

_score_price_to_book(pb_ratio) ==
    IF pb_ratio <= 0 \/ pb_ratio > 1000 THEN 0
    ELSE IF pb_ratio <= 100 THEN 100
    ELSE IF pb_ratio <= 200 THEN 80
    ELSE IF pb_ratio <= 300 THEN 60
    ELSE IF pb_ratio <= 500 THEN 40
    ELSE 20

\* Variant: no debt scores like negative debt.
_score_debt_to_equity_zero_unscored(debt_equity) ==
    IF debt_equity <= 0 THEN 0
    ELSE IF debt_equity <= 30 THEN 100
    ELSE IF debt_equity <= 50 THEN 80
    ELSE IF debt_equity <= 100 THEN 60
    ELSE IF debt_equity <= 200 THEN 40
    ELSE 20

_score_debt_to_equity(debt_equity) ==
    IF debt_equity < 0 THEN 0
    ELSE IF debt_equity <= 30 THEN 100
    ELSE IF debt_equity <= 50 THEN 80
    ELSE IF debt_equity <= 100 THEN 60
    ELSE IF debt_equity <= 200 THEN 40
    ELSE 20

_score_current_ratio(current_ratio) ==
    IF current_ratio <= 0 THEN 0
    ELSE IF current_ratio >= 200 THEN 100
    ELSE IF current_ratio >= 150 THEN 80
    ELSE IF current_ratio >= 100 THEN 60
    ELSE 20

\* Variant: the 80 and 60 buckets exchanged.
_score_roe_buckets_exchanged(roe) ==
    IF roe <= 0 THEN 0
    ELSE IF roe >= 20 THEN 100
    ELSE IF roe >= 15 THEN 60
    ELSE IF roe >= 10 THEN 80
    ELSE IF roe >= 5 THEN 40
    ELSE 20

_score_roe(roe) ==
    IF roe <= 0 THEN 0
    ELSE IF roe >= 20 THEN 100
    ELSE IF roe >= 15 THEN 80
    ELSE IF roe >= 10 THEN 60
    ELSE IF roe >= 5 THEN 40
    ELSE 20

_score_roa(roa) ==
    IF roa <= 0 THEN 0
    ELSE IF roa >= 10 THEN 100
    ELSE IF roa >= 7 THEN 80
    ELSE IF roa >= 5 THEN 60
    ELSE IF roa >= 3 THEN 40
    ELSE 20

\* Variant: the margin bucketed with the thresholds of the ROA table.
_score_profit_margin_roa_thresholds(margin) ==
    IF margin <= 0 THEN 0
    ELSE IF margin >= 10 THEN 100
    ELSE IF margin >= 7 THEN 80
    ELSE IF margin >= 5 THEN 60
    ELSE IF margin >= 3 THEN 40
    ELSE 20

_score_profit_margin(margin) ==
    IF margin <= 0 THEN 0
    ELSE IF margin >= 20 THEN 100
    ELSE IF margin >= 15 THEN 80
    ELSE IF margin >= 10 THEN 60
    ELSE IF margin >= 5 THEN 40
    ELSE 20

_score_growth(growth_rate) ==
    IF growth_rate <= 0 THEN 0
    ELSE IF growth_rate >= 20 THEN 100
    ELSE IF growth_rate >= 15 THEN 80
    ELSE IF growth_rate >= 10 THEN 60
    ELSE IF growth_rate >= 5 THEN 40
    ELSE 20

\* Variant: a beta of 0 or below scored above the 100-point ceiling.
_score_beta_overrated(beta) ==
    IF beta <= 0 THEN 150
    ELSE IF 80 <= beta /\ beta <= 120 THEN 100
    ELSE IF 60 <= beta /\ beta <= 140 THEN 80
    ELSE IF 40 <= beta /\ beta <= 160 THEN 60
    ELSE 40

\* Variant: a beta outside 0.4 .. 1.6 scores nothing.
_score_beta_floorless(beta) ==
    IF beta <= 0 THEN 50
    ELSE IF 80 <= beta /\ beta <= 120 THEN 100
    ELSE IF 60 <= beta /\ beta <= 140 THEN 80
    ELSE IF 40 <= beta /\ beta <= 160 THEN 60
    ELSE 0

_score_beta(beta) ==
    IF beta <= 0 THEN 50
    ELSE IF 80 <= beta /\ beta <= 120 THEN 100
    ELSE IF 60 <= beta /\ beta <= 140 THEN 80
    ELSE IF 40 <= beta /\ beta <= 160 THEN 60
    ELSE 40

\* The bucket table fundamental_score applies to each metric it reads; a
\* value that is not a number makes the first comparison raise TypeError.
metric_score(key, value) ==
    IF value = NotNumber THEN Raised
    ELSE CASE key = "pe_ratio" -> _score_pe_ratio(value)
           [] key = "price_to_book" -> _score_price_to_book(value)
           [] key = "debt_to_equity" -> _score_debt_to_equity(value)
           [] key = "current_ratio" -> _score_current_ratio(value)
           [] key = "roe" -> _score_roe(value)
           [] key = "roa" -> _score_roa(value)
           [] key = "profit_margins" -> _score_profit_margin(value)
           [] key \in {"revenue_growth", "earnings_growth"} -> _score_growth(value)
           [] key = "beta" -> _score_beta(value)

(***************************************************************************)
(* Fundamental scorer: fundamental_score                                   *)
(***************************************************************************)
\* Variant: the growth and risk weights exchanged.
fundamental_weights_exchanged ==
    [valuation |-> 25, financial_health |-> 25, profitability |-> 25,
     growth |-> 10, risk |-> 15]

\* The weights dict of fundamental_score, in percent (0.25 is 25).
fundamental_weights ==
    [valuation |-> 25, financial_health |-> 25, profitability |-> 25,
     growth |-> 15, risk |-> 10]

\* The order in which fundamental_score computes its categories.
fundamental_order ==
    <<"valuation", "financial_health", "profitability", "growth", "risk">>

\* mean of n sub-scores times the category weight, in 1/Scale points
Weighted(sum, n, weight) == (sum * weight * Scale) \div (n * 100)

\* One category of fundamental_score: its weighted points, or Raised when a
\* metric it reads is not a number (the bucket comparison raises TypeError).
fundamental_category(fundamental_data, category) ==
    LET m(key) == Get(fundamental_data, key, 0)
        w == fundamental_weights[category]
    IN  CASE category = "valuation" ->
               IF m("pe_ratio") = NotNumber \/ m("price_to_book") = NotNumber
               THEN Raised
               ELSE Weighted(_score_pe_ratio(m("pe_ratio"))
                             + _score_price_to_book(m("price_to_book")), 2, w)
          [] category = "financial_health" ->
               IF m("debt_to_equity") = NotNumber \/ m("current_ratio") = NotNumber
               THEN Raised
               ELSE Weighted(_score_debt_to_equity(m("debt_to_equity"))
                             + _score_current_ratio(m("current_ratio")), 2, w)
          [] category = "profitability" ->
               IF m("roe") = NotNumber \/ m("roa") = NotNumber
                  \/ m("profit_margins") = NotNumber
               THEN Raised
               ELSE Weighted(_score_roe(m("roe")) + _score_roa(m("roa"))
                             + _score_profit_margin(m("profit_margins")), 3, w)
          [] category = "growth" ->
               IF m("revenue_growth") = NotNumber \/ m("earnings_growth") = NotNumber
               THEN Raised
               ELSE Weighted(_score_growth(m("revenue_growth"))
                             + _score_growth(m("earnings_growth")), 2, w)
          [] category = "risk" ->
               IF m("beta") = NotNumber
               THEN Raised
               ELSE Weighted(_score_beta(m("beta")), 1, w)

\* Variant: an exception discards the running score and keeps the breakdown.
fundamental_score_error_resets(fundamental_data) ==
    LET points == [i \in 1..5 |->
                     fundamental_category(fundamental_data, fundamental_order[i])]
        raising == {i \in 1..5 : points[i] = Raised}
        done == IF raising = {} THEN 5
                ELSE (CHOOSE i \in raising : \A j \in raising : i <= j) - 1
        score == IF raising = {} THEN SumFirst(points, 5) ELSE 0
    IN  [total |-> Min2(score, 100 * Scale),
         scores |-> [c \in {fundamental_order[i] : i \in 1..done} |->
                       fundamental_category(fundamental_data, c)]]

\* The categories run in order inside one try block: the first one that
\* raises ends the scoring, the categories before it stay in the breakdown
\* and in the running score.  Result: [total, scores].
fundamental_score(fundamental_data) ==
    LET points == [i \in 1..5 |->
                     fundamental_category(fundamental_data, fundamental_order[i])]
        raising == {i \in 1..5 : points[i] = Raised}
        done == IF raising = {} THEN 5
                ELSE (CHOOSE i \in raising : \A j \in raising : i <= j) - 1
        score == SumFirst(points, done)
    IN  [total |-> Min2(score, 100 * Scale),
         scores |-> [c \in {fundamental_order[i] : i \in 1..done} |->
                       fundamental_category(fundamental_data, c)]]

(***************************************************************************)
(* Price / indicator frames                                                *)
(*                                                                         *)
(* A DataFrame is modelled by what the scorers read from it: its number of *)
(* rows, how many of the indicator column groups                           *)
(* calculate_technical_indicators managed to add before an exception ended *)
(* its try block, and the values at the last bar.  The rows are labelled   *)
(* by their position 1..len (the index is the ascending, duplicate-free    *)
(* date of each bar).                                                      *)
(*   len          number of bars                                           *)
(*   cols         0 none, 1 SMA/EMA, 2 +RSI, 3 +MACD, 4 +Bollinger,         *)
(*                5 +Volume_SMA, 6 +OBV, 7 +ATR (all)                      *)
(*   close, sma_20, sma_50, low_20, high_20, atr, avg_atr   prices         *)
(*   rsi          0..100                                                   *)
(*   macd, macd_signal                                                     *)
(*   bb_position  hundredths                                               *)
(*   volume, avg_volume                                                    *)
(*   obv_trend    sign of the mean 5-bar OBV percentage change             *)
(*   closes_before  the nine closes before the last one, oldest first      *)
(* An undefined value (NaN) is NaN: every comparison with it is false.     *)
(***************************************************************************)
NaN == -888888

GT(a, b) == a # NaN /\ b # NaN /\ a > b
LT(a, b) == a # NaN /\ b # NaN /\ a < b
LE(a, b) == a # NaN /\ b # NaN /\ a <= b

HasSMA(data) == data.cols >= 1
HasRSI(data) == data.cols >= 2
HasMACD(data) == data.cols >= 3
HasBB(data) == data.cols >= 4
HasOBV(data) == data.cols >= 6
HasATR(data) == data.cols >= 7

\* Row labels of data.iloc[from:to] for negative from, to (to = 0: to the end).
ILocLabels(len, from, to) ==
    [i \in 1..(to - from) |-> len + from + i]

\* Variant: two Series of the same length compared row by row, whatever
\* their labels.
IdenticallyLabeled_by_position(a, b) == Len(a) = Len(b)

\* pandas compares two Series only when they carry identical labels and
\* raises ValueError otherwise (Series._indexed_same).
IdenticallyLabeled(a, b) == a = b

(***************************************************************************)
(* Technical scorer: the category scorers (raw points 0..100, or Raised)   *)
(***************************************************************************)
_calculate_trend_score(data) ==
    IF data.len < 50 THEN 0
    ELSE IF ~HasSMA(data) THEN Raised
    ELSE LET current_price == data.close
             score == (IF GT(current_price, data.sma_20) THEN 20 ELSE 0)
                      + (IF GT(current_price, data.sma_50) THEN 20 ELSE 0)
                      + (IF GT(data.sma_20, data.sma_50) THEN 20 ELSE 0)
         IN  \* data['Close'].iloc[-5:] > data['Close'].iloc[-10:-5]
             IF ~IdenticallyLabeled(ILocLabels(data.len, -5, 0),
                                    ILocLabels(data.len, -10, -5))
             THEN Raised
             ELSE \* the same rows on both sides: no close exceeds itself,
                  \* recent_trend = 0
                  score

_calculate_momentum_score(data) ==
    IF data.len < 14 THEN 0
    ELSE IF ~HasRSI(data) \/ ~HasMACD(data) THEN Raised
    ELSE (IF LE(30, data.rsi) /\ LE(data.rsi, 70) THEN 25
          ELSE IF LT(data.rsi, 30) THEN 15
          ELSE IF GT(data.rsi, 70) THEN 10
          ELSE 0)
         + (IF GT(data.macd, data.macd_signal) THEN 25 ELSE 0)
         + (IF GT(data.macd, 0) THEN 25 ELSE 0)

_calculate_volatility_score(data) ==
    IF data.len < 14 THEN 0
    ELSE IF ~HasBB(data) \/ ~HasATR(data) THEN Raised
    ELSE (IF LE(20, data.bb_position) /\ LE(data.bb_position, 80) THEN 50
          ELSE IF LT(data.bb_position, 20) THEN 30
          ELSE IF GT(data.bb_position, 80) THEN 20
          ELSE 0)
         \* 0.5 <= atr / avg_atr <= 1.5; a zero or undefined average gives
         \* inf or NaN, which is outside the band
         + (IF data.atr # NaN /\ data.avg_atr # NaN /\ data.avg_atr > 0
               /\ data.avg_atr <= 2 * data.atr
               /\ 2 * data.atr <= 3 * data.avg_atr
            THEN 50 ELSE 25)

_calculate_volume_score(data) ==
    IF data.len < 20 THEN 0
    ELSE IF ~HasOBV(data) THEN Raised
    ELSE (IF data.avg_volume # NaN /\ 10 * data.volume > 12 * data.avg_volume
          THEN 50
          ELSE IF GT(data.volume, data.avg_volume) THEN 30
          ELSE 10)
         + (IF GT(data.obv_trend, 0) THEN 50 ELSE 20)

_calculate_support_resistance_score(data) ==
    IF data.len < 20 THEN 0
    ELSE LET current_price == data.close
             \* (current_price - recent_low) / current_price < 0.05
             near_support == 100 * (current_price - data.low_20) < 5 * current_price
             near_resistance == 100 * (data.high_20 - current_price) < 5 * current_price
         IN  IF near_support THEN 50
             ELSE IF near_resistance THEN 30
             ELSE 20

(***************************************************************************)
(* Technical scorer: technical_score                                       *)
(***************************************************************************)
\* The weights dict of technical_score, in percent.
technical_weights ==
    [trend |-> 30, momentum |-> 25, volatility |-> 20, volume |-> 15,
     support_resistance |-> 10]

technical_order ==
    <<"trend", "momentum", "volatility", "volume", "support_resistance">>

\* The category scorer technical_score calls for a category: its raw score,
\* or Raised.
category_score(data, category) ==
    CASE category = "trend" -> _calculate_trend_score(data)
      [] category = "momentum" -> _calculate_momentum_score(data)
      [] category = "volatility" -> _calculate_volatility_score(data)
      [] category = "volume" -> _calculate_volume_score(data)
      [] category = "support_resistance" ->
             _calculate_support_resistance_score(data)

technical_category(data, category) ==
    IF category_score(data, category) = Raised THEN Raised
    ELSE Weighted(category_score(data, category), 1, technical_weights[category])

\* Variant: the bar count compared with 49.
TooShort_off_by_one(data) == data.len = 0 \/ data.len < 49

\* data.empty or len(data) < 50
TooShort(data) == data.len = 0 \/ data.len < 50

\* Result: [total, scores, evaluated]; evaluated is the number of category
\* scorers that were called (it is not part of the returned tuple).
technical_score(data) ==
    IF TooShort(data)
    THEN [total |-> 0, scores |-> <<>>, evaluated |-> 0]
    ELSE LET points == [i \in 1..5 |-> technical_category(data, technical_order[i])]
             raising == {i \in 1..5 : points[i] = Raised}
             done == IF raising = {} THEN 5
                     ELSE (CHOOSE i \in raising : \A j \in raising : i <= j) - 1
             score == SumFirst(points, done)
         IN  [total |-> Min2(score, 100 * Scale),
              scores |-> [c \in {technical_order[i] : i \in 1..done} |->
                            technical_category(data, c)],
              evaluated |-> IF done = 5 THEN 5 ELSE done + 1]

(***************************************************************************)
(* Signal generator                                                        *)
(***************************************************************************)
Signal(type, indicator, strength, reason) ==
    [type |-> type, indicator |-> indicator, strength |-> strength,
     reason |-> reason]

\* The RSI block.
rsi_signals(data) ==
    IF LT(data.rsi, 30)
    THEN <<Signal("BUY", "RSI", "Strong", "Oversold condition")>>
    ELSE IF GT(data.rsi, 70)
    THEN <<Signal("SELL", "RSI", "Strong", "Overbought condition")>>
    ELSE <<>>

\* Variant: the sign of MACD is not looked at.
macd_signals_any_sign(data) ==
    IF GT(data.macd, data.macd_signal)
    THEN <<Signal("BUY", "MACD", "Medium", "MACD crossover above signal line")>>
    ELSE IF LT(data.macd, data.macd_signal)
    THEN <<Signal("SELL", "MACD", "Medium", "MACD crossover below signal line")>>
    ELSE <<>>

\* The MACD block.
macd_signals(data) ==
    IF GT(data.macd, data.macd_signal) /\ LT(data.macd, 0)
    THEN <<Signal("BUY", "MACD", "Medium", "MACD crossover above signal line")>>
    ELSE IF LT(data.macd, data.macd_signal) /\ GT(data.macd, 0)
    THEN <<Signal("SELL", "MACD", "Medium", "MACD crossover below signal line")>>
    ELSE <<>>

\* The Bollinger Band block.
bollinger_signals(data) ==
    IF LT(data.bb_position, 20)
    THEN <<Signal("BUY", "Bollinger Bands", "Medium", "Price near lower band")>>
    ELSE IF GT(data.bb_position, 80)
    THEN <<Signal("SELL", "Bollinger Bands", "Medium", "Price near upper band")>>
    ELSE <<>>

\* Variant: the signals read from the last bar however short the series.
generate_signals_any_length(data) ==
    IF data.len = 0 THEN <<>>
    ELSE IF ~HasRSI(data) \/ ~HasMACD(data) \/ ~HasBB(data)
    THEN <<>>
    ELSE rsi_signals(data) \o macd_signals(data) \o bollinger_signals(data)

generate_signals(data) ==
    IF TooShort(data) THEN <<>>
    ELSE IF ~HasRSI(data) \/ ~HasMACD(data) \/ ~HasBB(data)
    THEN <<>>      \* KeyError before the first append, caught
    ELSE rsi_signals(data) \o macd_signals(data) \o bollinger_signals(data)

(***************************************************************************)
(* Stock analyzer                                                          *)
(***************************************************************************)
\* Variant: the two blend weights exchanged.
Blend_exchanged(f, t) == (f * 40 + t * 60) \div 100

\* (fundamental_score * 0.6) + (technical_score * 0.4)
Blend(f, t) == (f * 60 + t * 40) \div 100

\* Variant: strict comparisons.
Recommendation_strict(overall_score) ==
    IF overall_score > 80 * Scale THEN "STRONG_BUY"
    ELSE IF overall_score > 70 * Scale THEN "BUY"
    ELSE IF overall_score > 50 * Scale THEN "HOLD"
    ELSE IF overall_score > 30 * Scale THEN "SELL"
    ELSE "STRONG_SELL"

\* The if / elif chain on analysis['overall_score'].
Recommendation(overall_score) ==
    IF overall_score >= 80 * Scale THEN "STRONG_BUY"
    ELSE IF overall_score >= 70 * Scale THEN "BUY"
    ELSE IF overall_score >= 50 * Scale THEN "HOLD"
    ELSE IF overall_score >= 30 * Scale THEN "SELL"
    ELSE "STRONG_SELL"

\* Variant: the scores are computed whether or not there is price history.
analyze_stock_always_scored(quote) ==
    LET scored(fs, ts, overall) ==
            [symbol |-> quote.symbol,
             fundamental_data |-> quote.fundamental_data,
             technical_data |-> quote.technical_data,
             fundamental_score |-> fs.total,
             technical_score |-> ts.total,
             overall_score |-> overall,
             fundamental_breakdown |-> fs.scores,
             technical_breakdown |-> ts.scores,
             recommendation |-> Recommendation(overall),
             signals |-> generate_signals(quote.technical_data)]
        blended(fs, ts) == scored(fs, ts, Blend(fs.total, ts.total))
    IN  blended(fundamental_score(quote.fundamental_data),
                technical_score(quote.technical_data))

\* A quote is what the data provider gives for one symbol:
\*   [symbol, fundamental_data (get_fundamental_data: the metrics dict, or
\*    the empty dict when the fetch failed), technical_data (get_stock_data
\*    followed by calculate_technical_indicators: a frame, len = 0 when the
\*    fetch failed or returned nothing)].
analyze_stock(quote) ==
    LET initial == [symbol |-> quote.symbol,
                    fundamental_data |-> quote.fundamental_data,
                    technical_data |-> <<>>,
                    fundamental_score |-> 0,
                    technical_score |-> 0,
                    overall_score |-> 0,
                    recommendation |-> "HOLD",
                    signals |-> <<>>]
        scored(fs, ts, overall) ==
            [symbol |-> quote.symbol,
             fundamental_data |-> quote.fundamental_data,
             technical_data |-> quote.technical_data,
             fundamental_score |-> fs.total,
             technical_score |-> ts.total,
             overall_score |-> overall,
             fundamental_breakdown |-> fs.scores,
             technical_breakdown |-> ts.scores,
             recommendation |-> Recommendation(overall),
             signals |-> generate_signals(quote.technical_data)]
        blended(fs, ts) == scored(fs, ts, Blend(fs.total, ts.total))
    IN  IF quote.technical_data.len = 0       \* stock_data.empty
        THEN initial
        ELSE blended(fundamental_score(quote.fundamental_data),
                     technical_score(quote.technical_data))

\* The statements of the try block that call or compute something, by
\* their source line: the two fetches, the indicator calculation, the two
\* scorers, the blend, the recommendation chain and the signal generator.
TryStatements == {501, 505, 507, 511, 512, 516, 521, 533}

\* What analyze_stock returns when the statement at source line raised an
\* exception: the except clause prints it, and the dict is returned with
\* the assignments made before that line.
analyze_stock_interrupted(quote, line) ==
    LET partial(fs, ts, overall) ==
            [symbol |-> quote.symbol,
             fundamental_data |->
                 IF line > 502 THEN quote.fundamental_data ELSE <<>>,
             technical_data |->
                 IF line > 508 THEN quote.technical_data ELSE <<>>,
             fundamental_score |-> IF line > 514 THEN fs.total ELSE 0,
             technical_score |-> IF line > 515 THEN ts.total ELSE 0,
             overall_score |-> IF line > 516 THEN overall ELSE 0,
             recommendation |->
                 IF line > 530 THEN Recommendation(overall) ELSE "HOLD",
             signals |-> <<>>]
        breakdowns(fs, ts) ==
            IF line > 518
            THEN [fundamental_breakdown |-> fs.scores,
                  technical_breakdown |-> ts.scores]
            ELSE <<>>
        merged(record, more) ==
            [k \in DOMAIN record \cup DOMAIN more |->
                IF k \in DOMAIN more THEN more[k] ELSE record[k]]
        blended(fs, ts) ==
            merged(partial(fs, ts, Blend(fs.total, ts.total)), breakdowns(fs, ts))
    IN  blended(fundamental_score(quote.fundamental_data),
                technical_score(quote.technical_data))

(***************************************************************************)
(* Screener                                                                *)
(***************************************************************************)
\* The filter condition raises TypeError when a value it compares is not a
\* number; "and" evaluates volume only when the market cap passed.
FilterRaises(a, min_cap) ==
    LET market_cap == Get(a.fundamental_data, "market_cap", 0)
        volume == Get(a.fundamental_data, "volume", 0)
    IN  \/ market_cap = NotNumber
        \/ market_cap >= min_cap /\ volume = NotNumber

\* Variant: the market-cap test left out.
FilterPasses_no_market_cap(a, min_cap, min_vol) ==
    /\ Get(a.fundamental_data, "volume", 0) >= min_vol
    /\ a.overall_score >= 60 * Scale

\* Variant: the score test left out.
FilterPasses_no_score(a, min_cap, min_vol) ==
    /\ Get(a.fundamental_data, "market_cap", 0) >= min_cap
    /\ Get(a.fundamental_data, "volume", 0) >= min_vol

FilterPasses(a, min_cap, min_vol) ==
    /\ Get(a.fundamental_data, "market_cap", 0) >= min_cap
    /\ Get(a.fundamental_data, "volume", 0) >= min_vol
    /\ a.overall_score >= 60 * Scale

\* Variant: the exception leaves the loop at the first symbol whose filter
\* raises.
Iterations_until_error(quotes, min_cap) ==
    LET raising == {i \in 1..Len(quotes) :
                      FilterRaises(analyze_stock(quotes[i]), min_cap)}
    IN  IF raising = {} THEN Len(quotes)
        ELSE CHOOSE i \in raising : \A j \in raising : i <= j

\* The number of iterations the for loop runs: the except clause of the
\* loop body ends with continue, so an exception never leaves the loop.
Iterations(quotes, min_cap) == Len(quotes)

\* The iterations whose analysis is appended to screened_stocks: the filter
\* neither raised nor rejected it.
Kept(quotes, min_cap, min_vol) ==
    {i \in 1..Iterations(quotes, min_cap) :
       /\ ~FilterRaises(analyze_stock(quotes[i]), min_cap)
       /\ FilterPasses(analyze_stock(quotes[i]), min_cap, min_vol)}

\* screened_stocks when the loop ends: the kept analyses, in input order.
ScreenLoop(quotes, min_cap, min_vol) ==
    LET kept == Kept(quotes, min_cap, min_vol)
        nth(j) == CHOOSE i \in kept : Cardinality({k \in kept : k <= i}) = j
    IN  [j \in 1..Cardinality(kept) |-> analyze_stock(quotes[nth(j)])]

\* Variant: elements with equal keys come out in reverse order.
Place_ties_reversed(keys, i) ==
    1 + Cardinality({j \in 1..Len(keys) :
                       keys[j] > keys[i] \/ (keys[j] = keys[i] /\ j > i)})

\* list.sort(key=..., reverse=True) is stable: an element moves behind the
\* elements with a larger key and behind the elements with an equal key
\* that were ahead of it.  Place(keys, i) is where element i ends up.
Place(keys, i) ==
    1 + Cardinality({j \in 1..Len(keys) :
                       keys[j] > keys[i] \/ (keys[j] = keys[i] /\ j < i)})

SortDesc(list) ==
    LET keys == [i \in 1..Len(list) |-> list[i].overall_score]
    IN  [p \in 1..Len(list) |->
           list[CHOOSE i \in 1..Len(list) : Place(keys, i) = p]]

\* Result: [screened, analysed]; analysed lists the symbols analyze_stock
\* was called for (it is not part of the returned list).
screen_stocks(quotes, min_cap, min_vol) ==
    [screened |-> SortDesc(ScreenLoop(quotes, min_cap, min_vol)),
     analysed |-> [i \in 1..Iterations(quotes, min_cap) |-> quotes[i].symbol]]

(***************************************************************************)
(* Fundamental data fetch                                                  *)
(***************************************************************************)
\* The provider's name of each key of the returned record.  The keys the
\* engine never reads afterwards (symbol, forward_pe, sector, industry,
\* dividend_yield, avg_volume) are left out.
ProviderKey ==
    [market_cap |-> "marketCap", volume |-> "volume",
     pe_ratio |-> "trailingPE", price_to_book |-> "priceToBook",
     debt_to_equity |-> "debtToEquity", current_ratio |-> "currentRatio",
     roe |-> "returnOnEquity", roa |-> "returnOnAssets",
     profit_margins |-> "profitMargins", revenue_growth |-> "revenueGrowth",
     earnings_growth |-> "earningsGrowth", beta |-> "beta"]

\* ticker = [raises, info]: whether fetching the info raised, and the info
\* dict otherwise.  Every key is filled, a missing one with 0.
get_fundamental_data(ticker) ==
    IF ticker.raises THEN <<>>
    ELSE [k \in DOMAIN ProviderKey |-> Get(ticker.info, ProviderKey[k], 0)]

(***************************************************************************)
(* Sector analyzer                                                         *)
(*                                                                         *)
(* A dict is a sequence of entries in insertion order.  Returns are in     *)
(* 1/Scale percent, like scores.  The volatility entry (a standard         *)
(* deviation times sqrt(252)) is not modelled: nothing reads it.           *)
(***************************************************************************)
sector_etfs ==
    << [etf |-> "XLK", sector |-> "Technology"],
       [etf |-> "XLV", sector |-> "Healthcare"],
       [etf |-> "XLF", sector |-> "Financial Services"],
       [etf |-> "XLY", sector |-> "Consumer Cyclical"],
       [etf |-> "XLI", sector |-> "Industrials"],
       [etf |-> "XLP", sector |-> "Consumer Defensive"],
       [etf |-> "XLE", sector |-> "Energy"],
       [etf |-> "XLB", sector |-> "Basic Materials"],
       [etf |-> "XLRE", sector |-> "Real Estate"],
       [etf |-> "XLC", sector |-> "Communication Services"],
       [etf |-> "XLU", sector |-> "Utilities"] >>

\* history[i] = [kind, first_close, frame] is what get_stock_data returns for
\* the i-th ETF: kind "empty" is an empty frame, "ok" a frame with a Close
\* column, "malformed" a non-empty frame without one (data['Close'] raises
\* KeyError).  frame is the indicator frame made from it; first_close is
\* Close.iloc[0], frame.close is Close.iloc[-1].
SectorEntry(i, history) ==
    LET current_price == history.frame.close
        price_6mo_ago == history.first_close
        return_6mo == (current_price * 100 * Scale) \div price_6mo_ago
                      - 100 * Scale
        score == technical_score(history.frame).total
    IN  [sector |-> sector_etfs[i].sector,
         etf |-> sector_etfs[i].etf,
         current_price |-> current_price,
         return_6mo |-> return_6mo,
         technical_score |-> score,
         momentum |-> return_6mo + score \div 2]

\* Variant: a raising computation ends the loop.
SectorsStored_until_error(histories) ==
    {i \in 1..Len(sector_etfs) :
       /\ histories[i].kind = "ok"
       /\ \A j \in 1..i : histories[j].kind # "malformed"}

\* The ETFs whose iteration stores an entry: the frame is not empty and
\* nothing raised inside the try block.
SectorsStored(histories) ==
    {i \in 1..Len(sector_etfs) : histories[i].kind = "ok"}

analyze_sector_performance(histories) ==
    LET stored == SectorsStored(histories)
        nth(j) == CHOOSE i \in stored : Cardinality({k \in stored : k <= i}) = j
    IN  [j \in 1..Cardinality(stored) |-> SectorEntry(nth(j), histories[nth(j)])]

(***************************************************************************)
(* Portfolio advisor                                                       *)
(*                                                                         *)
(* Weights and the mean beta are exact fractions [num, den]: a raw weight  *)
(* is in hundredths, so weight / total_weight is num = raw, den = total.   *)
(***************************************************************************)
\* max(0.05, 0.15 - i * 0.01) in hundredths, for the 0-based rank i
RawWeight(i) == IF 15 - i > 5 THEN 15 - i ELSE 5

\* Variant: the first eleven elements.
TopSlice_one_more(top_stocks) ==
    SubSeq(top_stocks, 1, Min2(11, Len(top_stocks)))

\* top_stocks[:10]
TopSlice(top_stocks) ==
    SubSeq(top_stocks, 1, Min2(10, Len(top_stocks)))

\* Variant: the other comparison of the sort.
SectorRank_ascending(keys, i) ==
    1 + Cardinality({j \in 1..Len(keys) :
                       keys[j] < keys[i] \/ (keys[j] = keys[i] /\ j < i)})

\* sorted(sector_scores.items(), key=..., reverse=True) is stable:
\* SectorRank(keys, i) is the 1-based place of item i in sorted_sectors.
SectorRank(keys, i) == Place(keys, i)

\* Variant: every weight divided by the number of sectors times 0.15.
TotalWeight_uniform(n) == 15 * n

\* total_weight after the loop over n sorted sectors
TotalWeight(n) ==
    LET weights == [r \in 1..n |-> RawWeight(r - 1)]
    IN  SumFirst(weights, n)

\* Variant: the inverse of total_weight is taken once, before the loop.
DividesByZero_before_loop(n, total_weight) == total_weight = 0

\* The normalising loop runs "/= total_weight" once per allocated sector; a
\* float division by zero raises ZeroDivisionError.
DividesByZero(n, total_weight) == n > 0 /\ total_weight = 0

\* stock['fundamental_data'].get('beta', 1.0)
BetaOf(stock) == Get(stock.fundamental_data, "beta", 100)

\* 'Moderate' if 0.8 <= avg_beta <= 1.2 else 'High' if avg_beta > 1.2 else
\* 'Low', for avg_beta = sum / n in hundredths.
RiskLevel(sum, n) ==
    IF 80 * n <= sum /\ sum <= 120 * n THEN "Moderate"
    ELSE IF sum > 120 * n THEN "High"
    ELSE "Low"

\* Result: [raised, top_stocks, sector_allocation, risk_assessment,
\* rebalancing_suggestions]; raised = TRUE (and nothing else) when an
\* exception leaves the function: the ZeroDivisionError of the normalising
\* loop, or the TypeError of np.mean on a beta that is not a number.
\* sector_allocation lists [sector, weight] in the order of insertion, which
\* is the order of sorted_sectors.
generate_portfolio_recommendations(top_stocks, sector_analysis) ==
    LET n == Len(sector_analysis)
        keys == [i \in 1..n |-> sector_analysis[i].momentum]
        at(r) == CHOOSE i \in 1..n : SectorRank(keys, i) = r
        total_weight == TotalWeight(n)
        first == TopSlice(top_stocks)
        betas == [i \in 1..Len(first) |-> BetaOf(first[i])]
    IN  IF \/ DividesByZero(n, total_weight)
           \/ Len(top_stocks) > 0 /\ \E i \in 1..Len(first) : betas[i] = NotNumber
        THEN [raised |-> TRUE]
        ELSE [raised |-> FALSE,
              top_stocks |-> first,
              sector_allocation |->
                  [r \in 1..n |->
                     [sector |-> sector_analysis[at(r)].sector,
                      weight |-> [num |-> RawWeight(r - 1),
                                  den |-> total_weight]]],
              risk_assessment |->
                  IF Len(top_stocks) > 0
                  THEN [portfolio_beta |-> [num |-> SumFirst(betas, Len(first)),
                                            den |-> Len(first)],
                        risk_level |-> RiskLevel(SumFirst(betas, Len(first)),
                                                 Len(first))]
                  ELSE <<>>,
              rebalancing_suggestions |-> <<>>]

(***************************************************************************)
(* Inputs: what the data provider can return                               *)
(***************************************************************************)
\* The longest symbol list passed to screen_stocks.
MaxSymbols == 3

\* The metrics fundamental_score reads.
ScoredKeys ==
    {"pe_ratio", "price_to_book", "debt_to_equity", "current_ratio", "roe",
     "roa", "profit_margins", "revenue_growth", "earnings_growth", "beta"}

\* d with d[key] = value, the key added when it is missing
With(d, key, value) ==
    [k \in DOMAIN d \cup {key} |-> IF k = key THEN value ELSE d[k]]

\* d without the keys in gone
Without(d, gone) == [k \in DOMAIN d \ gone |-> d[k]]

\* get_fundamental_data when the provider knows nothing: every default is 0.
ZeroMetrics ==
    [market_cap |-> 0, volume |-> 0, pe_ratio |-> 0, price_to_book |-> 0,
     debt_to_equity |-> 0, current_ratio |-> 0, roe |-> 0, roa |-> 0,
     profit_margins |-> 0, revenue_growth |-> 0, earnings_growth |-> 0,
     beta |-> 0]

\* pe=10, pb=0.5, debt=0, current=3, roe=0.25, roa=0.15, margin=0.25,
\* rev_growth=0.25, earn_growth=0.25, beta=1.0; a large, liquid company.
PerfectMetrics ==
    [market_cap |-> 2000000000, volume |-> 2000000, pe_ratio |-> 1000,
     price_to_book |-> 50, debt_to_equity |-> 0, current_ratio |-> 300,
     roe |-> 25, roa |-> 15, profit_margins |-> 25, revenue_growth |-> 25,
     earnings_growth |-> 25, beta |-> 100]

\* The dict of test_scoring_system (it has no market_cap and no volume).
TestMetrics ==
    [pe_ratio |-> 2000, price_to_book |-> 200, debt_to_equity |-> 50,
     current_ratio |-> 150, roe |-> 15, roa |-> 8, profit_margins |-> 12,
     revenue_growth |-> 10, earnings_growth |-> 8, beta |-> 100]

\* Values on, just below and just above every bucket boundary.
MetricValues(key) ==
    CASE key = "pe_ratio" ->
           {NotNumber, -500, 0, 1, 1000, 1500, 1501, 2500, 3500, 3501, 5000,
            5001, 10000, 10001}
      [] key = "price_to_book" ->
           {NotNumber, -50, 0, 50, 100, 101, 200, 300, 500, 501, 1000, 1001}
      [] key = "debt_to_equity" ->
           {NotNumber, -1, 0, 30, 31, 50, 100, 200, 201}
      [] key = "current_ratio" ->
           {NotNumber, -1, 0, 50, 99, 100, 150, 200, 300}
      [] key = "roe" ->
           {NotNumber, -5, 0, 1, 4, 5, 10, 14, 15, 20, 25}
      [] key = "roa" ->
           {NotNumber, -5, 0, 1, 3, 5, 7, 8, 10, 15}
      [] key = "profit_margins" ->
           {NotNumber, -5, 0, 1, 5, 8, 10, 12, 15, 20, 25}
      [] key \in {"revenue_growth", "earnings_growth"} ->
           {NotNumber, -5, 0, 1, 5, 10, 15, 20, 25}
      [] key = "beta" ->
           {NotNumber, -50, 0, 39, 40, 60, 79, 80, 100, 120, 121, 140, 160, 161}

\* The values given to one bucket table alone: those above, every whole
\* hundredth from -0.05 to 0.30 for the tables whose thresholds lie there,
\* and values well inside the first and the last bucket of the others.
ScoreMetricValues(key) ==
    MetricValues(key)
    \cup (CASE key \in {"roe", "roa", "profit_margins", "revenue_growth",
                        "earnings_growth"} -> -5..30
           [] key = "pe_ratio" -> {-10000, 500, 2000, 2501, 3000, 4000, 7500, 20000}
           [] key = "price_to_book" -> {-1000, 1, 150, 201, 250, 301, 400, 750, 2000}
           [] key = "debt_to_equity" -> {-100, 1, 40, 51, 75, 101, 150, 1000}
           [] key = "current_ratio" -> {-100, 1, 101, 149, 151, 199, 201, 1000}
           [] key = "beta" -> {-100, 1, 41, 59, 61, 81, 119, 139, 141, 159, 300})

\* every dict of base with one scored metric replaced
MetricReplaced(base) ==
    UNION {{With(b, k, v) : b \in base, v \in MetricValues(k)} : k \in ScoredKeys}

\* The metrics dicts given to fundamental_score: the empty dict, the three
\* dicts above, each also with up to two metrics replaced, and the all-zero
\* dict with some keys missing.
FundamentalInputs ==
    {<<>>}
    \cup MetricReplaced(MetricReplaced({ZeroMetrics, PerfectMetrics, TestMetrics}))
    \cup {Without(ZeroMetrics, gone) :
             gone \in SUBSET {"pe_ratio", "debt_to_equity", "roe", "beta"}}

\* calculate_technical_indicators: an indicator with window W is undefined
\* (NaN) at the last bar of a frame shorter than W, and a column that was
\* never added holds nothing.
WarmUp(f) ==
    LET need(field) ==
            CASE field \in {"sma_20", "bb_position"} -> 20
              [] field = "sma_50" -> 50
              [] field = "rsi" -> 14
              [] field = "macd" -> 26
              [] field = "macd_signal" -> 34
              [] field = "atr" -> 14
              [] field = "avg_atr" -> 27
              [] field = "avg_volume" -> 20
              [] field = "closes_before" -> 10
              [] OTHER -> 1
        col(field) ==
            CASE field \in {"sma_20", "sma_50"} -> 1
              [] field = "rsi" -> 2
              [] field \in {"macd", "macd_signal"} -> 3
              [] field = "bb_position" -> 4
              [] field = "obv_trend" -> 6
              [] field \in {"atr", "avg_atr"} -> 7
              [] OTHER -> 0
    IN  [field \in DOMAIN f |->
           IF field \in {"len", "cols"} THEN f[field]
           ELSE IF f.len < need(field) \/ f.cols < col(field) THEN NaN
           ELSE f[field]]

\* A rising series: price above both averages, neutral oscillators.
RisingFrame ==
    [len |-> 60, cols |-> 7, close |-> 100, sma_20 |-> 95, sma_50 |-> 90,
     low_20 |-> 88, high_20 |-> 101, rsi |-> 55, macd |-> 2,
     macd_signal |-> 1, bb_position |-> 60, atr |-> 3, avg_atr |-> 3,
     volume |-> 1300, avg_volume |-> 1000, obv_trend |-> 1,
     closes_before |-> <<91, 92, 93, 94, 95, 96, 97, 98, 99>>]

\* A falling series: price below both averages, oversold.
FallingFrame ==
    [len |-> 60, cols |-> 7, close |-> 100, sma_20 |-> 105, sma_50 |-> 110,
     low_20 |-> 99, high_20 |-> 120, rsi |-> 25, macd |-> -2,
     macd_signal |-> -3, bb_position |-> 10, atr |-> 8, avg_atr |-> 4,
     volume |-> 900, avg_volume |-> 1000, obv_trend |-> -1,
     closes_before |-> <<109, 108, 107, 106, 105, 104, 103, 102, 101>>]

FrameFields ==
    {"len", "cols", "sma_20", "sma_50", "low_20", "high_20", "rsi", "macd",
     "macd_signal", "bb_position", "atr", "avg_atr", "volume", "obv_trend",
     "closes_before"}

FrameValues(field) ==
    CASE field = "len" -> {0, 1, 13, 14, 19, 20, 33, 49, 50, 51}
      [] field = "cols" -> 0..7
      [] field \in {"sma_20", "sma_50"} -> {90, 100, 110}
      [] field = "low_20" -> {80, 95, 96, 100}
      [] field = "high_20" -> {100, 104, 105, 120}
      [] field = "rsi" -> {0, 29, 30, 70, 71, 100}
      [] field = "macd" -> {-2, 0, 2}
      [] field = "macd_signal" -> {-3, -1, 1, 3}
      [] field = "bb_position" -> {NaN, -10, 19, 20, 80, 81, 110}
      [] field = "atr" -> {0, 1, 2, 6, 7}
      [] field = "avg_atr" -> {0, 2, 4}
      [] field = "volume" -> {1000, 1001, 1200, 1201}
      [] field = "obv_trend" -> {NaN, -1, 0, 1}
      [] field = "closes_before" ->
             {<<91, 92, 93, 94, 95, 96, 97, 98, 99>>,
              <<109, 108, 107, 106, 105, 104, 103, 102, 101>>,
              <<100, 98, 100, 100, 100, 99, 99, 99, 101>>}

\* every frame of base with one property replaced
FieldReplaced(base) ==
    UNION {{With(b, k, v) : b \in base, v \in FrameValues(k)} : k \in FrameFields}

\* The frames given to technical_score: the two series above with up to two
\* of their properties replaced.
TechnicalInputs ==
    {WarmUp(f) :
       f \in FieldReplaced(FieldReplaced({RisingFrame, FallingFrame}))}

\* The frames of the symbols analysed: no data, one bar, one bar short,
\* long enough,
\* and long enough with the indicator calculation cut short.
QuoteFrames ==
    {WarmUp(With(With(b, "len", n), "cols", c)) :
       b \in {RisingFrame, FallingFrame}, n \in {0, 1, 49, 50, 60}, c \in {3, 7}}

\* Nothing scores but beta, and beta as little as it can: negative equity,
\* a beta of 1.61, every other metric unknown to the provider.
WorstMetrics ==
    With(With(ZeroMetrics, "debt_to_equity", -1), "beta", 161)

\* The metrics of the symbols analysed.
QuoteMetrics ==
    {<<>>, ZeroMetrics, TestMetrics, PerfectMetrics}
    \cup {With(PerfectMetrics, "market_cap", v) :
             v \in {NotNumber, 0, 999999999, 1000000000}}
    \cup {With(PerfectMetrics, "volume", v) :
             v \in {NotNumber, 0, 999999, 1000000}}
    \cup {With(With(PerfectMetrics, "market_cap", 999999999), "volume", NotNumber)}
    \cup {With(PerfectMetrics, k, v) :
             k \in {"pe_ratio", "roe", "beta"}, v \in {NotNumber, 0}}
    \cup {With(PerfectMetrics, "pe_ratio", 3501),
          With(PerfectMetrics, "roe", 14),
          With(With(PerfectMetrics, "roe", 4), "beta", 161),
          WorstMetrics}

Quote(symbol, metrics, frame) ==
    [symbol |-> symbol, fundamental_data |-> metrics, technical_data |-> frame]

\* The quotes of the symbols screened, as (metrics, frame) pairs.  Symbols
\* are numbered by their place in the list passed to screen_stocks.
ScreenQuotes ==
    ({<<>>, TestMetrics, PerfectMetrics,
      With(PerfectMetrics, "market_cap", NotNumber),
      With(PerfectMetrics, "market_cap", 999999999),
      With(PerfectMetrics, "volume", NotNumber),
      With(PerfectMetrics, "volume", 999999),
      With(With(PerfectMetrics, "market_cap", 1000000000), "volume", 1000000),
      With(With(PerfectMetrics, "market_cap", 999999999), "volume", NotNumber),
      With(PerfectMetrics, "roe", 14)}
     \X {WarmUp(RisingFrame)})
    \cup ({PerfectMetrics}
          \X {WarmUp(With(FallingFrame, "len", n)) : n \in {0, 49}})

ScreenInputs ==
    UNION {[1..n -> ScreenQuotes] : n \in 0..MaxSymbols}

QuotesOf(input) ==
    [i \in 1..Len(input) |-> Quote(i, input[i][1], input[i][2])]

\* The frames given to generate_signals: every combination of values of
\* the indicators it reads, on either side of each threshold and undefined,
\* for frames that are empty, one bar short and long enough, and with the
\* indicator calculation cut short before or after the Bollinger columns.
SignalInputs ==
    {WarmUp([RisingFrame EXCEPT !.len = n, !.cols = c, !.rsi = r,
                                !.macd = m[1], !.macd_signal = m[2],
                                !.bb_position = p]) :
       n \in {0, 49, 50}, c \in {3, 4, 7}, r \in {NaN, 29, 30, 50, 70, 71},
       m \in {<<-2, -3>>, <<2, 3>>, <<-2, -1>>, <<2, 1>>, <<0, -1>>, <<0, 1>>,
              <<NaN, NaN>>, <<1, NaN>>},
       p \in {NaN, 19, 20, 50, 80, 81}}

\* The most sector ETFs for which the provider returns no usable history in
\* one run, unless it returns one for almost none.
MaxOutages == 2

\* The longest list passed to generate_portfolio_recommendations.
MaxTopStocks == 11

\* Close.iloc[-1] of the i-th ETF when Close.iloc[0] is 100: all equal,
\* rising along the table, falling along it, and pairs of neighbours
\* alternating between two levels.
LastClose(pattern, i) ==
    CASE pattern = "flat" -> 110
      [] pattern = "rising" -> 90 + 2 * i
      [] pattern = "falling" -> 130 - 3 * i
      [] pattern = "paired" -> 105 - 10 * (((i + 1) \div 2) % 2)

ClosePatterns == {"flat", "rising", "falling", "paired"}

\* Six months of daily bars of an ETF.
SectorHistory(kind, last_close) ==
    [kind |-> kind,
     first_close |-> 100,
     frame |-> WarmUp([RisingFrame EXCEPT
                         !.len = IF kind = "empty" THEN 0 ELSE 126,
                         !.cols = IF kind = "ok" THEN 7 ELSE 0,
                         !.close = last_close])]

\* Which ETFs have no history and which a malformed one: at most MaxOutages
\* of them together, or all but at most one.
OutageSets ==
    {o \in SUBSET (1..Len(sector_etfs)) :
       \/ Cardinality(o) <= MaxOutages
       \/ Cardinality(o) >= Len(sector_etfs) - 1}

SectorKinds ==
    {[i \in 1..Len(sector_etfs) |->
        IF i \in empty THEN "empty"
        ELSE IF i \in malformed THEN "malformed" ELSE "ok"] :
       empty \in OutageSets,
       malformed \in {o \in OutageSets : Cardinality(o) <= MaxOutages}}

\* What the provider returns for the eleven ETFs in one run.
SectorInputs ==
    {[i \in 1..Len(sector_etfs) |->
        SectorHistory(kinds[i], LastClose(pattern, i))] :
       kinds \in {k \in SectorKinds :
                    Cardinality({i \in 1..Len(sector_etfs) : k[i] = "malformed"})
                    + Cardinality({i \in 1..Len(sector_etfs) : k[i] = "empty"})
                       \in (0..MaxOutages) \cup {Len(sector_etfs) - 1,
                                                  Len(sector_etfs)}},
       pattern \in ClosePatterns}

\* The provider's info dict from which get_fundamental_data makes metrics.
InfoOf(metrics) ==
    [p \in {ProviderKey[k] : k \in DOMAIN metrics} |->
        metrics[CHOOSE k \in DOMAIN metrics : ProviderKey[k] = p]]

\* The tickers of the stocks recommended: a perfect company with a beta of
\* 0.5 .. 1.5, with a beta of None, with no beta in its info, and one whose
\* info cannot be fetched.
Tickers ==
    {[raises |-> FALSE, info |-> InfoOf(With(PerfectMetrics, "beta", b))] :
        b \in {50, 80, 100, 120, 150, NotNumber}}
    \cup {[raises |-> FALSE, info |-> InfoOf(Without(PerfectMetrics, {"beta"}))],
          [raises |-> TRUE, info |-> <<>>]}

\* The analysis of the symbol numbered i.
StockOf(i, ticker) ==
    analyze_stock(Quote(i, get_fundamental_data(ticker), WarmUp(RisingFrame)))

\* The tickers behind the lists given as top_stocks: up to MaxTopStocks of
\* them, the first one or the first ten alike and the rest alike.
TickerLists ==
    {[i \in 1..n |-> IF i <= k THEN a ELSE b] :
       n \in 0..MaxTopStocks, k \in {1, 10}, a \in Tickers, b \in Tickers}

\* The list of analyses made from a list of tickers.
TopStocksOf(tickers) == [i \in 1..Len(tickers) |-> StockOf(i, tickers[i])]

\* The dicts given as sector_analysis: what analyze_sector_performance
\* returns when the first n ETFs have a history and the others none.
SectorAnalysisInputs ==
    {analyze_sector_performance(
        [i \in 1..Len(sector_etfs) |->
            SectorHistory(IF i <= n THEN "ok" ELSE "empty",
                          LastClose(pattern, i))]) :
       n \in 0..Len(sector_etfs), pattern \in ClosePatterns}

\* The arguments of generate_portfolio_recommendations, as (tickers, sector
\* analysis): every list with one sector analysis and with the empty one,
\* and every sector analysis with three short lists.
PortfolioInputs ==
    (TickerLists
       \X {s \in SectorAnalysisInputs :
             Len(s) = 3 /\ s[1].momentum = s[2].momentum
                        /\ s[3].momentum > s[1].momentum})
    \cup ({t \in TickerLists :
             Len(t) <= 1 /\ \A i \in 1..Len(t) : BetaOf(StockOf(i, t[i])) = 100}
          \X SectorAnalysisInputs)
    \cup (TickerLists \X {s \in SectorAnalysisInputs : Len(s) = 0})

\* The longest symbol list passed to get_multiple_stocks_data.
MaxFetches == 2

\* The symbols asked for; a list may name one twice.
CollectorSymbols == {"AAPL", "MSFT"}

SymbolLists == UNION {[1..n -> CollectorSymbols] : n \in 0..MaxFetches}

\* What "await response.json()" can give for a 200 response: ok is FALSE
\* when the call raises or the document lacks one of the keys read, close
\* holds quotes['close'], one value per timestamp.
ChartPayloads ==
    {[ok |-> FALSE, close |-> <<>>], [ok |-> TRUE, close |-> <<>>],
     [ok |-> TRUE, close |-> <<101>>], [ok |-> TRUE, close |-> <<102, 103>>]}

\* get_multiple_stocks_data before it is called
IdleCollector ==
    [pc |-> "idle", symbols |-> <<>>, tasks |-> <<>>, completed |-> <<>>,
     data_dict |-> <<>>]

\* The number of dashboard sessions open at the same time.
MaxSessions == 2

Sessions == 1..MaxSessions

\* What the sidebar of a session can hold when its button is pressed: the
\* "Minimum Market Cap ($B)" input times 1e9, and the score slider.
SidebarMarketCaps == {1000000000, 2000000000}
SidebarScores == {60, 61}

\* The symbols of the selected universe with what the provider returns for
\* them: two perfect companies, one of 1.5 and one of 2 billion dollars.
DashboardQuotes ==
    << Quote("MID", With(PerfectMetrics, "market_cap", 1500000000),
             WarmUp(RisingFrame)),
       Quote("BIG", PerfectMetrics, WarmUp(RisingFrame)) >>

\* What the provider returns for the sector ETFs during a dashboard run.
DashboardHistories ==
    [i \in 1..Len(sector_etfs) |-> SectorHistory("ok", LastClose("rising", i))]

\* A session before its button is pressed.
IdleSession ==
    [pc |-> "idle", min_score |-> 0, min_market_cap |-> 0,
     screened_stocks |-> <<>>, session_state |-> <<>>]

(***************************************************************************)
(* The state machine: a TradingSystem is constructed, then called          *)
(***************************************************************************)
Init ==
    /\ min_market_cap = 1000000000
    /\ min_volume = 1000000
    /\ op = "none"
    /\ fd_arg = <<>>
    /\ fd_ret = <<>>
    /\ td_arg = <<>>
    /\ td_ret = <<>>
    /\ an_arg = <<>>
    /\ analysis = <<>>
    /\ sc_arg = <<>>
    /\ sc_ret = <<>>
    /\ an_fail = 0
    /\ sg_arg = <<>>
    /\ sg_ret = <<>>
    /\ se_arg = <<>>
    /\ se_ret = <<>>
    /\ pf_arg = <<>>
    /\ pf_ret = <<>>
    /\ dash = [s \in Sessions |-> IdleSession]
    /\ ms_arg = <<>>
    /\ ms_ret = <<>>
    /\ cs_arg = <<>>
    /\ cs_ret = <<>>
    /\ coll = IdleCollector

\* system.fundamental_score(fundamental_data)
FundamentalScore ==
    /\ op = "none"
    /\ \E fundamental_data \in FundamentalInputs :
          /\ fd_arg' = fundamental_data
          /\ fd_ret' = fundamental_score(fundamental_data)
    /\ op' = "fundamental_score"
    /\ UNCHANGED <<min_market_cap, min_volume, td_arg, td_ret, an_arg,
                   analysis, sc_arg, sc_ret,
                   an_fail, sg_arg, sg_ret, se_arg, se_ret, pf_arg, pf_ret, dash, coll, ms_arg,
                   ms_ret, cs_arg, cs_ret>>

\* system.technical_score(data)
TechnicalScore ==
    /\ op = "none"
    /\ \E data \in TechnicalInputs :
          /\ td_arg' = data
          /\ td_ret' = technical_score(data)
    /\ op' = "technical_score"
    /\ UNCHANGED <<min_market_cap, min_volume, fd_arg, fd_ret, an_arg,
                   analysis, sc_arg, sc_ret,
                   an_fail, sg_arg, sg_ret, se_arg, se_ret, pf_arg, pf_ret, dash, coll, ms_arg,
                   ms_ret, cs_arg, cs_ret>>

\* system.analyze_stock(symbol)
AnalyzeStock ==
    /\ op = "none"
    /\ \E metrics \in QuoteMetrics, frame \in QuoteFrames :
          /\ an_arg' = Quote(1, metrics, frame)
          /\ analysis' = analyze_stock(Quote(1, metrics, frame))
    /\ op' = "analyze_stock"
    /\ UNCHANGED <<min_market_cap, min_volume, fd_arg, fd_ret, td_arg,
                   td_ret, sc_arg, sc_ret,
                   an_fail, sg_arg, sg_ret, se_arg, se_ret, pf_arg, pf_ret, dash, coll, ms_arg,
                   ms_ret, cs_arg, cs_ret>>

\* system.screen_stocks(symbols)
ScreenStocks ==
    /\ op = "none"
    /\ \E input \in ScreenInputs :
          /\ sc_arg' = QuotesOf(input)
          /\ sc_ret' = screen_stocks(QuotesOf(input), min_market_cap, min_volume)
    /\ op' = "screen_stocks"
    /\ UNCHANGED <<min_market_cap, min_volume, fd_arg, fd_ret, td_arg,
                   td_ret, an_arg, analysis,
                   an_fail, sg_arg, sg_ret, se_arg, se_ret, pf_arg, pf_ret, dash, coll, ms_arg,
                   ms_ret, cs_arg, cs_ret>>

\* system.analyze_sector_performance()
AnalyzeSectorPerformance ==
    /\ op = "none"
    /\ \E histories \in SectorInputs :
          /\ se_arg' = histories
          /\ se_ret' = analyze_sector_performance(histories)
    /\ op' = "analyze_sector_performance"
    /\ UNCHANGED <<min_market_cap, min_volume, fd_arg, fd_ret, td_arg,
                   td_ret, an_arg, analysis, sc_arg, sc_ret, an_fail, sg_arg,
                   sg_ret, pf_arg, pf_ret, dash, coll, ms_arg,
                   ms_ret, cs_arg, cs_ret>>

\* system.generate_portfolio_recommendations(top_stocks, sector_analysis)
GeneratePortfolioRecommendations ==
    /\ op = "none"
    /\ \E input \in PortfolioInputs :
          /\ pf_arg' = [tickers |-> input[1],
                        top_stocks |-> TopStocksOf(input[1]),
                        sector_analysis |-> input[2]]
          /\ pf_ret' = generate_portfolio_recommendations(TopStocksOf(input[1]),
                                                          input[2])
    /\ op' = "generate_portfolio_recommendations"
    /\ UNCHANGED <<min_market_cap, min_volume, fd_arg, fd_ret, td_arg,
                   td_ret, an_arg, analysis, sc_arg, sc_ret, an_fail, sg_arg,
                   sg_ret, se_arg, se_ret, dash, coll, ms_arg,
                   ms_ret, cs_arg, cs_ret>>

\* system._score_pe_ratio(value), system._score_roa(value), ...: one bucket
\* table applied to one value.
ScoreMetric ==
    /\ op = "none"
    /\ \E key \in ScoredKeys :
          \E value \in ScoreMetricValues(key) :
             /\ ms_arg' = [key |-> key, value |-> value]
             /\ ms_ret' = [score |-> metric_score(key, value)]
    /\ op' = "metric_score"
    /\ UNCHANGED <<min_market_cap, min_volume, fd_arg, fd_ret, td_arg,
                   td_ret, an_arg, analysis, sc_arg, sc_ret, an_fail, sg_arg,
                   sg_ret, se_arg, se_ret, pf_arg, pf_ret, dash, coll, cs_arg, cs_ret>>

\* system._calculate_momentum_score(data), ...: one category scorer
\* applied to one frame.
CategoryScore ==
    /\ op = "none"
    /\ \E data \in TechnicalInputs, i \in 1..Len(technical_order) :
          /\ cs_arg' = [category |-> technical_order[i], data |-> data]
          /\ cs_ret' = [score |-> category_score(data, technical_order[i])]
    /\ op' = "category_score"
    /\ UNCHANGED <<min_market_cap, min_volume, fd_arg, fd_ret, td_arg,
                   td_ret, an_arg, analysis, sc_arg, sc_ret, an_fail, sg_arg,
                   sg_ret, se_arg, se_ret, pf_arg, pf_ret, dash, coll, ms_arg,
                   ms_ret>>

\* system.analyze_stock(symbol), one statement of its try block raising.
\* The statements from line 507 on run only when the history is not empty.
AnalyzeStockInterrupted ==
    /\ op = "none"
    /\ \E metrics \in {<<>>, ZeroMetrics, TestMetrics, PerfectMetrics},
          frame \in QuoteFrames, line \in TryStatements :
          /\ line > 506 => frame.len > 0
          /\ an_arg' = Quote(1, metrics, frame)
          /\ an_fail' = line
          /\ analysis' = analyze_stock_interrupted(Quote(1, metrics, frame), line)
    /\ op' = "analyze_stock_interrupted"
    /\ UNCHANGED <<min_market_cap, min_volume, fd_arg, fd_ret, td_arg,
                   td_ret, sc_arg, sc_ret, sg_arg, sg_ret, se_arg, se_ret,
                   pf_arg, pf_ret, dash, coll, ms_arg,
                   ms_ret, cs_arg, cs_ret>>

\* system.generate_signals(data)
GenerateSignals ==
    /\ op = "none"
    /\ \E data \in SignalInputs :
          /\ sg_arg' = data
          /\ sg_ret' = generate_signals(data)
    /\ op' = "generate_signals"
    /\ UNCHANGED <<min_market_cap, min_volume, fd_arg, fd_ret, td_arg,
                   td_ret, an_arg, analysis, sc_arg, sc_ret, an_fail, se_arg,
                   se_ret, pf_arg, pf_ret, dash, coll, ms_arg,
                   ms_ret, cs_arg, cs_ret>>

Next ==
    \/ FundamentalScore
    \/ TechnicalScore
    \/ AnalyzeStock
    \/ ScreenStocks
    \/ AnalyzeSectorPerformance
    \/ GeneratePortfolioRecommendations
    \/ GenerateSignals
    \/ AnalyzeStockInterrupted
    \/ ScoreMetric
    \/ CategoryScore

Spec == Init /\ [][Next]_vars

(***************************************************************************)
(* The dashboard: every session runs main() of dashboard.py in a thread of *)
(* its own, and get_trading_system() hands all of them the one cached      *)
(* TradingSystem.  A run is split where it touches that object.            *)
(***************************************************************************)
calls == <<op, fd_arg, fd_ret, td_arg, td_ret, an_arg, analysis, sc_arg,
           sc_ret, an_fail, sg_arg, sg_ret, se_arg, se_ret, pf_arg, pf_ret,
           ms_arg, ms_ret, cs_arg, cs_ret>>

\* The button is pressed: the script reads the sidebar.
DashPress(s) ==
    /\ dash[s].pc = "idle"
    /\ \E score \in SidebarScores, cap \in SidebarMarketCaps :
          dash' = [dash EXCEPT ![s].pc = "configure",
                               ![s].min_score = score,
                               ![s].min_market_cap = cap]
    /\ UNCHANGED <<min_market_cap, min_volume, calls, coll>>

\* system = get_trading_system(); system.min_market_cap = min_market_cap
DashConfigure(s) ==
    /\ dash[s].pc = "configure"
    /\ min_market_cap' = dash[s].min_market_cap
    /\ dash' = [dash EXCEPT ![s].pc = "screen"]
    /\ UNCHANGED <<min_volume, calls, coll>>

\* screened_stocks = system.screen_stocks(stock_list)
DashScreen(s) ==
    /\ dash[s].pc = "screen"
    /\ dash' = [dash EXCEPT
                  ![s].pc = "report",
                  ![s].screened_stocks =
                      screen_stocks(DashboardQuotes, min_market_cap,
                                    min_volume).screened]
    /\ UNCHANGED <<min_market_cap, min_volume, calls, coll>>

\* The rest of the run: the sector analysis, the recommendations, the
\* filter by the minimum score and the three session_state entries.
DashReport(s) ==
    /\ dash[s].pc = "report"
    /\ LET screened_stocks == dash[s].screened_stocks
           sector_analysis == analyze_sector_performance(DashboardHistories)
           enough(stock) == stock.overall_score >= dash[s].min_score * Scale
       IN  dash' = [dash EXCEPT
                      ![s].pc = "done",
                      ![s].session_state =
                          [screened_stocks |-> SelectSeq(screened_stocks, enough),
                           sector_analysis |-> sector_analysis,
                           recommendations |->
                               generate_portfolio_recommendations(
                                   screened_stocks, sector_analysis)]]
    /\ UNCHANGED <<min_market_cap, min_volume, calls, coll>>

DashNext ==
    \E s \in Sessions :
        \/ DashPress(s)
        \/ DashConfigure(s)
        \/ DashScreen(s)
        \/ DashReport(s)

SpecDashboard == Init /\ [][DashNext]_vars

(***************************************************************************)
(* The collector: get_multiple_stocks_data runs one coroutine per symbol   *)
(* on the event loop.  A coroutine is split at its two awaits, and the     *)
(* coroutines take their steps in any order.                               *)
(***************************************************************************)
\* pd.DataFrame(), and the frame built from a chart document
EmptyFrame == [Close |-> <<>>]
ChartFrame(data) == [Close |-> data.close]

\* result.empty
IsEmpty(frame) == Len(frame.Close) = 0

\* A coroutine made by _fetch_stock_data_async(session, symbol), waiting in
\* "async with session.get(url, params=params)".
NewTask ==
    [pc |-> "get", status |-> 0, data |-> [ok |-> FALSE, close |-> <<>>],
     result |-> EmptyFrame]

\* Variant: the results in the order the coroutines finished.
gather_as_completed(c) ==
    [i \in 1..Len(c.tasks) |-> c.tasks[c.completed[i]].result]

\* asyncio.gather(*tasks, return_exceptions=True): the results in the order
\* of the tasks.  No exception is among them, every coroutine catches its
\* own.
gather(c) == [i \in 1..Len(c.tasks) |-> c.tasks[i].result]

\* The loop over zip(symbols, results): a later entry of the same symbol
\* replaces an earlier one.
data_dict_of(symbols, results) ==
    LET kept == {i \in 1..Len(symbols) : ~IsEmpty(results[i])}
    IN  [symbol \in {symbols[i] : i \in kept} |->
           results[CHOOSE i \in kept :
                      /\ symbols[i] = symbol
                      /\ \A j \in kept : symbols[j] = symbol => j <= i]]

\* collector.get_multiple_stocks_data(symbols), up to "await gather"
GetMultipleStocksData ==
    /\ coll.pc = "idle"
    /\ \E symbols \in SymbolLists :
          coll' = [coll EXCEPT !.pc = "gather",
                               !.symbols = symbols,
                               !.tasks = [i \in 1..Len(symbols) |-> NewTask]]
    /\ UNCHANGED <<min_market_cap, min_volume, calls, dash>>

\* session.get of task i ends: it raises (the except clause returns an
\* empty frame), or the response has a status other than 200 (an empty
\* frame), or the status is 200 and the coroutine awaits response.json().
FetchRespond(i) ==
    /\ coll.pc = "gather"
    /\ i \in DOMAIN coll.tasks
    /\ coll.tasks[i].pc = "get"
    /\ \/ coll' = [coll EXCEPT !.tasks[i].pc = "done",
                                !.tasks[i].result = EmptyFrame,
                                !.completed = Append(@, i)]
       \/ coll' = [coll EXCEPT !.tasks[i].pc = "done",
                                !.tasks[i].status = 404,
                                !.tasks[i].result = EmptyFrame,
                                !.completed = Append(@, i)]
       \/ coll' = [coll EXCEPT !.tasks[i].pc = "json",
                                !.tasks[i].status = 200]
    /\ UNCHANGED <<min_market_cap, min_volume, calls, dash>>

\* response.json() of task i ends: the frame of the document is returned,
\* or the empty frame when reading the document raised.
FetchJson(i) ==
    /\ coll.pc = "gather"
    /\ i \in DOMAIN coll.tasks
    /\ coll.tasks[i].pc = "json"
    /\ \E data \in ChartPayloads :
          coll' = [coll EXCEPT !.tasks[i].pc = "done",
                               !.tasks[i].data = data,
                               !.tasks[i].result =
                                   IF data.ok THEN ChartFrame(data)
                                   ELSE EmptyFrame,
                               !.completed = Append(@, i)]
    /\ UNCHANGED <<min_market_cap, min_volume, calls, dash>>

\* Every task is done: gather returns, and the dict is built and returned.
GatherReturn ==
    /\ coll.pc = "gather"
    /\ \A i \in 1..Len(coll.tasks) : coll.tasks[i].pc = "done"
    /\ coll' = [coll EXCEPT !.pc = "done",
                            !.data_dict = data_dict_of(coll.symbols, gather(coll))]
    /\ UNCHANGED <<min_market_cap, min_volume, calls, dash>>

CollectorNext ==
    \/ GetMultipleStocksData
    \/ \E i \in 1..MaxFetches : FetchRespond(i)
    \/ \E i \in 1..MaxFetches : FetchJson(i)
    \/ GatherReturn

SpecCollector == Init /\ [][CollectorNext]_vars

(***************************************************************************)
(* Properties of the screener                                              *)
(***************************************************************************)
Numeric(v) == v # NotNumber

MarketCapOf(a) == Get(a.fundamental_data, "market_cap", 0)
VolumeOf(a) == Get(a.fundamental_data, "volume", 0)

\* The input positions whose filter comparison fails with an exception.
Failing(quotes) ==
    {i \in 1..Len(quotes) :
       LET a == analyze_stock(quotes[i])
       IN  \/ ~Numeric(MarketCapOf(a))
           \/ MarketCapOf(a) >= min_market_cap /\ ~Numeric(VolumeOf(a))}

\* The input positions that meet the three screening conditions.
Qualifying(quotes) ==
    {i \in 1..Len(quotes) \ Failing(quotes) :
       LET a == analyze_stock(quotes[i])
       IN  /\ MarketCapOf(a) >= min_market_cap
           /\ VolumeOf(a) >= min_volume
           /\ a.overall_score >= 60 * Scale}

\* C1: screen_stocks returns exactly the analyses of the input symbols that
\* did not fail and have market_cap >= min_market_cap, volume >= min_volume
\* and overall_score >= 60; no returned stock has a market cap below the
\* configured minimum.
C1_ScreenReturnsExactlyQualifying ==
    op = "screen_stocks" =>
        LET out == sc_ret.screened
        IN  /\ Len(out) = Cardinality(Qualifying(sc_arg))
            /\ {out[p] : p \in 1..Len(out)}
                  = {analyze_stock(sc_arg[i]) : i \in Qualifying(sc_arg)}
            /\ \A p \in 1..Len(out) :
                  /\ Numeric(MarketCapOf(out[p]))
                  /\ MarketCapOf(out[p]) >= min_market_cap

\* A screening that returned a stock and rejected another one, otherwise
\* perfect, for a market cap one dollar below the minimum.
C1_Witness ==
    /\ op = "screen_stocks"
    /\ Len(sc_ret.screened) >= 1
    /\ \E i \in 1..Len(sc_arg) :
          /\ sc_arg[i].fundamental_data
               = With(PerfectMetrics, "market_cap", 999999999)
          /\ \A p \in 1..Len(sc_ret.screened) : sc_ret.screened[p].symbol # i

\* C2: the list returned by screen_stocks is in descending order of
\* overall_score, and returned stocks with equal overall_score are in the
\* order of their symbols in the input list.
C2_ScreenSortedStable ==
    op = "screen_stocks" =>
        LET out == sc_ret.screened
        IN  \A p, q \in 1..Len(out) :
              p < q =>
                /\ out[p].overall_score >= out[q].overall_score
                /\ out[p].overall_score = out[q].overall_score
                     => out[p].symbol < out[q].symbol

\* A screening that returned the first and the last of three symbols, with
\* equal scores.
C2_Witness ==
    /\ op = "screen_stocks"
    /\ Len(sc_arg) = 3
    /\ Len(sc_ret.screened) = 2
    /\ sc_ret.screened[1].symbol = 1
    /\ sc_ret.screened[2].symbol = 3
    /\ sc_ret.screened[1].overall_score = sc_ret.screened[2].overall_score

NotFailing(quotes) ==
    LET ok == {i \in 1..Len(quotes) : i \notin Failing(quotes)}
        nth(j) == CHOOSE i \in ok : Cardinality({k \in ok : k <= i}) = j
    IN  [j \in 1..Cardinality(ok) |-> quotes[nth(j)]]

\* C3: in screen_stocks a failure on one symbol is caught and only that
\* symbol is skipped: every symbol of the input is analysed, and the output
\* is the output for the input list without the failing symbols.
C3_ScreenSkipsOnlyFailing ==
    op = "screen_stocks" =>
        /\ sc_ret.analysed = [i \in 1..Len(sc_arg) |-> sc_arg[i].symbol]
        /\ sc_ret.screened
             = screen_stocks(NotFailing(sc_arg), min_market_cap, min_volume).screened

\* A screening whose first symbol failed in the filter and whose later
\* symbol was returned.
C3_Witness ==
    /\ op = "screen_stocks"
    /\ 1 \in Failing(sc_arg)
    /\ \E p \in 1..Len(sc_ret.screened) : sc_ret.screened[p].symbol > 1

(***************************************************************************)
(* Properties of the stock analyzer                                        *)
(***************************************************************************)
\* the recommendation by score range, in whole points
RecommendationRange(overall_score) ==
    CASE overall_score >= 80 * Scale -> "STRONG_BUY"
      [] overall_score >= 70 * Scale /\ overall_score < 80 * Scale -> "BUY"
      [] overall_score >= 50 * Scale /\ overall_score < 70 * Scale -> "HOLD"
      [] overall_score >= 30 * Scale /\ overall_score < 50 * Scale -> "SELL"
      [] overall_score < 30 * Scale -> "STRONG_SELL"

\* one thousandth of a point
Milli == Scale \div 1000

\* C4: with non-empty price history the recommendation follows from
\* overall_score with inclusive lower bounds: >= 80 STRONG_BUY, >= 70 BUY,
\* >= 50 HOLD, >= 30 SELL, below 30 STRONG_SELL; 80.0 is STRONG_BUY, 79.999
\* BUY, 70.0 BUY, 49.999 SELL, 30.0 SELL and 29.999 STRONG_SELL.
C4_RecommendationThresholds ==
    /\ (op = "analyze_stock" /\ an_arg.technical_data.len > 0) =>
          analysis.recommendation = RecommendationRange(analysis.overall_score)
    /\ op = "analyze_stock" =>
          /\ Recommendation(80 * Scale) = "STRONG_BUY"
          /\ Recommendation(80 * Scale - Milli) = "BUY"
          /\ Recommendation(70 * Scale) = "BUY"
          /\ Recommendation(50 * Scale - Milli) = "SELL"
          /\ Recommendation(30 * Scale) = "SELL"
          /\ Recommendation(30 * Scale - Milli) = "STRONG_SELL"

\* An analysis whose overall score is exactly 30 and is recommended SELL.
C4_Witness ==
    /\ op = "analyze_stock"
    /\ an_arg.technical_data.len > 0
    /\ analysis.overall_score = 30 * Scale
    /\ analysis.recommendation = "SELL"

\* C5: with non-empty price history, overall_score is 0.6 x the
\* fundamental_score plus 0.4 x the technical_score of the same result.
C5_OverallIsBlend ==
    (op = "analyze_stock" /\ an_arg.technical_data.len > 0) =>
        10 * analysis.overall_score
          = 6 * analysis.fundamental_score + 4 * analysis.technical_score

\* An analysis with price history and a positive fundamental score.
C5_Witness ==
    /\ op = "analyze_stock"
    /\ an_arg.technical_data.len > 0
    /\ analysis.fundamental_score = 100 * Scale
    /\ analysis.overall_score = 60 * Scale

\* C6: with empty price history analyze_stock returns overall_score 0,
\* fundamental_score 0, technical_score 0, recommendation HOLD and no
\* signals, whatever fundamentals were fetched.
C6_EmptyHistoryZeroResult ==
    (op = "analyze_stock" /\ an_arg.technical_data.len = 0) =>
        /\ analysis.overall_score = 0
        /\ analysis.fundamental_score = 0
        /\ analysis.technical_score = 0
        /\ analysis.recommendation = "HOLD"
        /\ analysis.signals = <<>>

\* An analysis without price history of a company with perfect metrics.
C6_Witness ==
    /\ op = "analyze_stock"
    /\ an_arg.technical_data.len = 0
    /\ an_arg.fundamental_data = PerfectMetrics
    /\ analysis.overall_score = 0

(***************************************************************************)
(* Properties of the scorers                                               *)
(***************************************************************************)
\* every scored metric of d is zero or missing
AllZeroOrMissing(d) == \A k \in ScoredKeys : Get(d, k, 0) = 0

\* C7 as stated: fundamental_score of a record whose metrics are all zero
\* or missing returns total 5.0, risk contributing 5.0 and valuation,
\* financial_health, profitability and growth contributing 0.
C7_AllZeroScoresFive ==
    (op = "fundamental_score" /\ AllZeroOrMissing(fd_arg)) =>
        /\ fd_ret.total = 5 * Scale
        /\ fd_ret.scores =
             [valuation |-> 0, financial_health |-> 0, profitability |-> 0,
              growth |-> 0, risk |-> 5 * Scale]

\* C7 amended: fundamental_score of a record whose metrics are all zero or
\* missing returns total 17.5: risk contributes 50 x 0.10 = 5.0,
\* financial_health contributes (100 + 0) / 2 x 0.25 = 12.5 because a
\* debt/equity of 0 falls in the <= 0.3 bucket, and valuation,
\* profitability and growth contribute 0.
C7_AllZeroScoresSeventeenAndAHalf ==
    (op = "fundamental_score" /\ AllZeroOrMissing(fd_arg)) =>
        /\ 2 * fd_ret.total = 35 * Scale
        /\ fd_ret.scores =
             [valuation |-> 0, financial_health |-> (25 * Scale) \div 2,
              profitability |-> 0, growth |-> 0, risk |-> 5 * Scale]

\* fundamental_score was called with zero metrics, debt/equity missing.
C7_Witness ==
    /\ op = "fundamental_score"
    /\ fd_arg = Without(ZeroMetrics, {"debt_to_equity"})
    /\ AllZeroOrMissing(fd_arg)
    /\ fd_ret.scores["financial_health"] > 0

\* the scored metrics of d are those of the perfect record
IsPerfect(d) ==
    \A k \in ScoredKeys : k \in DOMAIN d /\ d[k] = PerfectMetrics[k]

\* C8: fundamental_score(pe=10, pb=0.5, debt=0, current=3, roe=0.25,
\* roa=0.15, margin=0.25, rev_growth=0.25, earn_growth=0.25, beta=1.0)
\* returns total exactly 100 with breakdown valuation 25, financial_health
\* 25, profitability 25, growth 15, risk 10.
C8_PerfectScoresHundred ==
    (op = "fundamental_score" /\ IsPerfect(fd_arg)) =>
        /\ fd_ret.total = 100 * Scale
        /\ fd_ret.scores =
             [valuation |-> 25 * Scale, financial_health |-> 25 * Scale,
              profitability |-> 25 * Scale, growth |-> 15 * Scale,
              risk |-> 10 * Scale]

\* fundamental_score was called with the perfect record.
C8_Witness ==
    /\ op = "fundamental_score"
    /\ fd_arg = PerfectMetrics
    /\ fd_ret.total = 100 * Scale

\* C9: for every frame with fewer than 50 bars, the empty one included,
\* technical_score returns total 0 and an empty breakdown, and no category
\* scorer is evaluated.
C9_ShortSeriesScoresNothing ==
    (op = "technical_score" /\ td_arg.len < 50) =>
        /\ td_ret.total = 0
        /\ td_ret.scores = <<>>
        /\ td_ret.evaluated = 0

\* technical_score was called with 49 bars and every indicator column.
C9_Witness ==
    /\ op = "technical_score"
    /\ td_arg.len = 49
    /\ td_arg.cols = 7
    /\ td_ret.total = 0

\* the numeric ROE values tried
RoeValues == MetricValues("roe") \ {NotNumber}

\* C10: with all other metrics fixed the fundamental_score total is
\* non-decreasing in roe: for two records that differ only in roe,
\* roe1 <= roe2 implies total1 <= total2.
C10_TotalMonotoneInRoe ==
    (op = "fundamental_score" /\ Numeric(Get(fd_arg, "roe", 0))) =>
        \A r \in RoeValues :
            LET other == fundamental_score(With(fd_arg, "roe", r)).total
            IN  /\ Get(fd_arg, "roe", 0) <= r => fd_ret.total <= other
                /\ r <= Get(fd_arg, "roe", 0) => other <= fd_ret.total

\* fundamental_score was called with roe = 0.14 and gave a total strictly
\* below the total of the same record with roe = 0.15.
C10_Witness ==
    /\ op = "fundamental_score"
    /\ Get(fd_arg, "roe", 0) = 14
    /\ fd_ret.total < fundamental_score(With(fd_arg, "roe", 15)).total

(***************************************************************************)
(* Properties of the score ranges                                          *)
(***************************************************************************)
\* every category of the breakdown is between 0 and 100 x its weight
BreakdownInRange(scores, weights) ==
    \A c \in DOMAIN scores :
        /\ c \in DOMAIN weights
        /\ 0 <= scores[c]
        /\ scores[c] <= weights[c] * Scale

\* C11: the totals returned by fundamental_score and technical_score lie
\* in [0, 100], and every category present in either breakdown is
\* non-negative and at most 100 times the weight of that category.
C11_ScoresInRange ==
    /\ op = "fundamental_score" =>
          /\ 0 <= fd_ret.total
          /\ fd_ret.total <= 100 * Scale
          /\ BreakdownInRange(fd_ret.scores, fundamental_weights)
    /\ op = "technical_score" =>
          /\ 0 <= td_ret.total
          /\ td_ret.total <= 100 * Scale
          /\ BreakdownInRange(td_ret.scores, technical_weights)

\* fundamental_score returned a full breakdown in which the risk category
\* sits exactly at its ceiling of 100 x 0.10.
C11_Witness ==
    /\ op = "fundamental_score"
    /\ DOMAIN fd_ret.scores = DOMAIN fundamental_weights
    /\ fd_ret.scores["risk"] = 10 * Scale
    /\ fd_ret.total < 100 * Scale

(***************************************************************************)
(* Properties of the portfolio advisor                                     *)
(***************************************************************************)
\* generate_portfolio_recommendations was called and returned
Recommended ==
    /\ op = "generate_portfolio_recommendations"
    /\ ~pf_ret.raised

\* the sum of the weights of an allocation whose weights share the
\* denominator den, as a numerator over den
WeightSum(allocation) ==
    SumFirst([r \in 1..Len(allocation) |-> allocation[r].weight.num],
             Len(allocation))

\* C12: for a sector_analysis of 1 to 11 sectors the returned
\* sector_allocation holds exactly one weight for every sector of the
\* argument and for no other, and the weights sum to 1.
C12_AllocationSumsToOne ==
    (Recommended /\ Len(pf_arg.sector_analysis) \in 1..11) =>
        LET given == pf_arg.sector_analysis
            allocation == pf_ret.sector_allocation
        IN  /\ Len(allocation) = Len(given)
            /\ {allocation[r].sector : r \in 1..Len(allocation)}
                  = {given[i].sector : i \in 1..Len(given)}
            /\ \A r \in 1..Len(allocation) :
                  /\ allocation[r].weight.den = allocation[1].weight.den
                  /\ allocation[r].weight.den > 0
            /\ WeightSum(allocation) = allocation[1].weight.den

\* all eleven sectors were allocated, over a raw total of 1.10
C12_Witness ==
    /\ Recommended
    /\ Len(pf_arg.sector_analysis) = 11
    /\ Len(pf_ret.sector_allocation) = 11
    /\ pf_ret.sector_allocation[1].weight.den = 110

\* the 0-based rank of the i-th sector of the argument: the sectors of
\* higher momentum, and those of equal momentum that come before it
RankOf(given, i) ==
    Cardinality({j \in 1..Len(given) :
                   \/ given[j].momentum > given[i].momentum
                   \/ given[j].momentum = given[i].momentum /\ j < i})

\* max(0.05, 0.15 - 0.01 * rank), in hundredths
ClaimedRaw(rank) == IF 15 - rank >= 5 THEN 15 - rank ELSE 5

\* the weight allocated to a sector, as [num, den]
WeightOf(allocation, sector) ==
    allocation[CHOOSE r \in 1..Len(allocation) :
                 allocation[r].sector = sector].weight

\* C13: the sector ranked i (0-based, by momentum descending, sectors of
\* equal momentum in the iteration order of sector_analysis) receives
\* max(0.05, 0.15 - 0.01 * i) divided by the sum of these raw weights over
\* all ranks, so a sector of higher momentum never receives a smaller
\* weight than one of lower momentum.
C13_WeightByMomentumRank ==
    Recommended =>
        LET given == pf_arg.sector_analysis
            allocation == pf_ret.sector_allocation
            total == SumFirst([r \in 1..Len(given) |-> ClaimedRaw(r - 1)],
                              Len(given))
        IN  /\ \A i \in 1..Len(given) :
                  /\ allocation[RankOf(given, i) + 1].sector = given[i].sector
                  /\ WeightOf(allocation, given[i].sector)
                        = [num |-> ClaimedRaw(RankOf(given, i)), den |-> total]
            /\ \A i, j \in 1..Len(given) :
                  given[i].momentum > given[j].momentum =>
                      WeightOf(allocation, given[i].sector).num
                         >= WeightOf(allocation, given[j].sector).num

\* two sectors of equal momentum were ranked in the order of the argument,
\* behind a sector that comes after them but has a higher momentum
C13_Witness ==
    /\ Recommended
    /\ Len(pf_arg.sector_analysis) >= 3
    /\ pf_arg.sector_analysis[1].momentum = pf_arg.sector_analysis[2].momentum
    /\ pf_arg.sector_analysis[3].momentum > pf_arg.sector_analysis[1].momentum
    /\ pf_ret.sector_allocation[1].sector = pf_arg.sector_analysis[3].sector
    /\ pf_ret.sector_allocation[2].sector = pf_arg.sector_analysis[1].sector
    /\ pf_ret.sector_allocation[3].sector = pf_arg.sector_analysis[2].sector
    /\ pf_ret.sector_allocation[2].weight.num
          > pf_ret.sector_allocation[3].weight.num

\* C14: the returned top_stocks is the first min(10, n) elements of the
\* list passed in, in the same order: the list is neither sorted nor
\* filtered again.
C14_TopStocksIsPrefix ==
    Recommended =>
        LET given == pf_arg.top_stocks
            n == IF Len(given) < 10 THEN Len(given) ELSE 10
        IN  /\ Len(pf_ret.top_stocks) = n
            /\ \A i \in 1..n : pf_ret.top_stocks[i] = given[i]

\* eleven stocks were passed in and ten came back
C14_Witness ==
    /\ Recommended
    /\ Len(pf_arg.top_stocks) = 11
    /\ Len(pf_ret.top_stocks) = 10
    /\ pf_ret.top_stocks[10].symbol = 10

\* the beta the provider reports for a ticker, 1.0 when it reports none
ReportedBeta(ticker) ==
    IF ticker.raises \/ "beta" \notin DOMAIN ticker.info THEN 100
    ELSE ticker.info["beta"]

\* C15: when top_stocks is not empty, portfolio_beta is the mean of beta
\* over the first ten stocks, a stock whose fundamentals have no beta
\* counting as 1.0, and risk_level is Moderate for 0.8 <= portfolio_beta
\* <= 1.2, High above 1.2 and Low below 0.8.
C15_MissingBetaCountsAsOne ==
    (Recommended /\ Len(pf_arg.top_stocks) > 0) =>
        LET n == IF Len(pf_arg.tickers) < 10 THEN Len(pf_arg.tickers) ELSE 10
            sum == SumFirst([i \in 1..n |-> ReportedBeta(pf_arg.tickers[i])], n)
            beta == pf_ret.risk_assessment.portfolio_beta
            level == pf_ret.risk_assessment.risk_level
        IN  /\ beta.num * n = sum * beta.den
            /\ level = "Moderate" <=>
                  (80 * beta.den <= beta.num /\ beta.num <= 120 * beta.den)
            /\ level = "High" <=> beta.num > 120 * beta.den
            /\ level = "Low" <=> beta.num < 80 * beta.den

(***************************************************************************)
(* Properties of the signal generator                                      *)
(***************************************************************************)
\* a value is defined and below / above a threshold
Below(x, y) == x # NaN /\ y # NaN /\ x < y
Above(x, y) == x # NaN /\ y # NaN /\ x > y

\* the six rules in the order RSI, MACD, Bollinger, each with whether it
\* applies to the last bar
SignalRules(data) ==
    << [type |-> "BUY", indicator |-> "RSI", strength |-> "Strong",
        applies |-> Below(data.rsi, 30)],
       [type |-> "SELL", indicator |-> "RSI", strength |-> "Strong",
        applies |-> Above(data.rsi, 70)],
       [type |-> "BUY", indicator |-> "MACD", strength |-> "Medium",
        applies |-> Above(data.macd, data.macd_signal) /\ Below(data.macd, 0)],
       [type |-> "SELL", indicator |-> "MACD", strength |-> "Medium",
        applies |-> Below(data.macd, data.macd_signal) /\ Above(data.macd, 0)],
       [type |-> "BUY", indicator |-> "Bollinger Bands", strength |-> "Medium",
        applies |-> Below(data.bb_position, 20)],
       [type |-> "SELL", indicator |-> "Bollinger Bands", strength |-> "Medium",
        applies |-> Above(data.bb_position, 80)] >>

\* the rule a returned signal is an instance of
RuleOf(signal) ==
    [type |-> signal.type, indicator |-> signal.indicator,
     strength |-> signal.strength, applies |-> TRUE]

\* C16: for a frame of at least 50 bars (carrying the RSI, MACD and
\* Bollinger columns) generate_signals returns exactly the rules that apply
\* to the last bar, in the order RSI, MACD, Bollinger: at most three
\* signals, at most one per indicator, never a BUY and a SELL from the same
\* indicator; for fewer than 50 bars the list is empty.
C16_SignalsAreTheApplicableRules ==
    op = "generate_signals" =>
        /\ sg_arg.len < 50 => sg_ret = <<>>
        /\ (sg_arg.len >= 50 /\ HasBB(sg_arg)) =>
              LET rules == SignalRules(sg_arg)
                  applicable == {k \in 1..6 : rules[k].applies}
              IN  /\ Len(sg_ret) = Cardinality(applicable)
                  /\ \A k \in applicable :
                        \E i \in 1..Len(sg_ret) : RuleOf(sg_ret[i]) = rules[k]
                  /\ \A i \in 1..Len(sg_ret) :
                        \E k \in applicable : RuleOf(sg_ret[i]) = rules[k]
                  /\ \A i, j \in 1..Len(sg_ret) :
                        i < j =>
                           \E k, l \in applicable :
                              /\ k < l
                              /\ RuleOf(sg_ret[i]) = rules[k]
                              /\ RuleOf(sg_ret[j]) = rules[l]
                  /\ Len(sg_ret) <= 3
                  /\ \A i, j \in 1..Len(sg_ret) :
                        i # j => sg_ret[i].indicator # sg_ret[j].indicator

\* three signals came back from a frame of exactly 50 bars: RSI oversold,
\* MACD above its signal line below zero, price near the upper band
C16_Witness ==
    /\ op = "generate_signals"
    /\ sg_arg.len = 50
    /\ Len(sg_ret) = 3
    /\ sg_ret[1].indicator = "RSI" /\ sg_ret[1].type = "BUY"
    /\ sg_ret[2].indicator = "MACD" /\ sg_ret[2].type = "BUY"
    /\ sg_ret[3].indicator = "Bollinger Bands" /\ sg_ret[3].type = "SELL"

(***************************************************************************)
(* Properties of the sector analyzer                                       *)
(***************************************************************************)
\* the entries returned for the i-th ETF of the table
EntriesFor(i) ==
    {j \in 1..Len(se_ret) : se_ret[j].sector = sector_etfs[i].sector}

\* C17: analyze_sector_performance returns an entry for a sector if and
\* only if the price history of its ETF was not empty and its computation
\* did not fail; a sector without data or with a failing computation is
\* left out, never filled with zeros, and the sectors after it are still
\* analysed; the result has between 0 and 11 entries.
C17_SectorEntryIffData ==
    op = "analyze_sector_performance" =>
        /\ \A i \in 1..Len(sector_etfs) :
              /\ se_arg[i].kind = "ok" =>
                    /\ Cardinality(EntriesFor(i)) = 1
                    /\ \A j \in EntriesFor(i) :
                          /\ se_ret[j].etf = sector_etfs[i].etf
                          /\ se_ret[j].current_price = se_arg[i].frame.close
              /\ se_arg[i].kind # "ok" => EntriesFor(i) = {}
        /\ \A j \in 1..Len(se_ret) :
              \E i \in 1..Len(sector_etfs) : j \in EntriesFor(i)
        /\ Len(se_ret) \in 0..11

\* the first ETF's computation failed, the second had no data, and the
\* nine after them were all analysed
C17_Witness ==
    /\ op = "analyze_sector_performance"
    /\ se_arg[1].kind = "malformed"
    /\ se_arg[2].kind = "empty"
    /\ Len(se_ret) = 9
    /\ se_ret[1].sector = "Financial Services"

(***************************************************************************)
(* Properties of the failure handling of the stock analyzer                *)
(***************************************************************************)
\* C18: when analyze_stock fails with an unexpected error partway, after
\* the fundamentals or the scores have been obtained, no exception reaches
\* the caller and the result is the zero-valued analysis: fundamental_score
\* 0, technical_score 0, overall_score 0, recommendation HOLD, no signals.
C18_FailureYieldsZeroAnalysis ==
    (op = "analyze_stock_interrupted" /\ an_fail > 502) =>
        /\ analysis.fundamental_score = 0
        /\ analysis.technical_score = 0
        /\ analysis.overall_score = 0
        /\ analysis.recommendation = "HOLD"
        /\ analysis.signals = <<>>

(***************************************************************************)
(* Properties of concurrent dashboard sessions                             *)
(***************************************************************************)
\* C19: no mutable state is shared between analysis runs: when the runs of
\* two dashboard sessions interleave, each setting min_market_cap on the
\* TradingSystem it got from get_trading_system and then calling
\* screen_stocks, each run filters with the minimum it configured, so no
\* run returns a stock below its own minimum.
C19_RunFiltersWithItsOwnMinimum ==
    \A s \in Sessions :
        dash[s].pc \in {"report", "done"} =>
            \A i \in 1..Len(dash[s].screened_stocks) :
                dash[s].screened_stocks[i].fundamental_data.market_cap
                   >= dash[s].min_market_cap

(***************************************************************************)
(* Properties of the success test of the callers                           *)
(***************************************************************************)
\* every metric the scorers read is a number (or missing, and read as 0)
NumericMetrics(fundamental_data) ==
    \A k \in ScoredKeys : Get(fundamental_data, k, 0) # NotNumber

\* C20: analyze_stock returns an overall_score above 0 whenever the price
\* history fetched is not empty and the metrics are numeric, the
\* fundamental total being at least 4 because the beta sub-score is at
\* least 40; so overall_score = 0 exactly when the price history was empty.
C20_PositiveScoreIffHistory ==
    (op = "analyze_stock" /\ NumericMetrics(an_arg.fundamental_data)) =>
        /\ an_arg.technical_data.len > 0 =>
              /\ analysis.fundamental_score >= 4 * Scale
              /\ analysis.overall_score > 0
        /\ an_arg.technical_data.len = 0 => analysis.overall_score = 0
        /\ analysis.overall_score = 0 <=> an_arg.technical_data.len = 0

\* a stock on which only beta scores, and only 40: fundamental total 4,
\* overall score 2.4
C20_Witness ==
    /\ op = "analyze_stock"
    /\ an_arg.fundamental_data = WorstMetrics
    /\ an_arg.technical_data.len > 0
    /\ analysis.fundamental_score = 4 * Scale
    /\ 10 * analysis.overall_score = 24 * Scale

(***************************************************************************)
(* Properties of the bucket tables                                         *)
(***************************************************************************)
\* The buckets "<= 0 gives 0; >= t100 gives 100; >= t80 gives 80; >= t60
\* gives 60; >= t40 gives 40; otherwise 20", thresholds in hundredths.
AtLeastBuckets(v, t100, t80, t60, t40) ==
    IF v <= 0 THEN 0
    ELSE IF v >= t100 THEN 100
    ELSE IF v >= t80 THEN 80
    ELSE IF v >= t60 THEN 60
    ELSE IF v >= t40 THEN 40
    ELSE 20

\* C21 as stated: the profit-margin sub-score uses the thresholds of the ROA
\* sub-score: for every value v, _score_profit_margin(v) = _score_roa(v)
\* (<= 0 gives 0; >= 0.10 gives 100; >= 0.07 gives 80; >= 0.05 gives 60;
\* >= 0.03 gives 40; otherwise 20).
C21_ProfitMarginAsRoa ==
    (op = "metric_score" /\ ms_arg.key = "profit_margins"
       /\ Numeric(ms_arg.value)) =>
        /\ ms_ret.score = metric_score("roa", ms_arg.value)
        /\ ms_ret.score = AtLeastBuckets(ms_arg.value, 10, 7, 5, 3)

\* C21 amended: the profit-margin sub-score uses the thresholds of the ROE
\* sub-score: for every value v, _score_profit_margin(v) = _score_roe(v)
\* (<= 0 gives 0; >= 0.20 gives 100; >= 0.15 gives 80; >= 0.10 gives 60;
\* >= 0.05 gives 40; otherwise 20).
C21_ProfitMarginAsRoe ==
    (op = "metric_score" /\ ms_arg.key = "profit_margins"
       /\ Numeric(ms_arg.value)) =>
        /\ ms_ret.score = metric_score("roe", ms_arg.value)
        /\ ms_ret.score = AtLeastBuckets(ms_arg.value, 20, 15, 10, 5)

\* _score_profit_margin was called with 0.10 and returned 60, where the ROA
\* table gives 100.
C21_Witness ==
    /\ op = "metric_score"
    /\ ms_arg = [key |-> "profit_margins", value |-> 10]
    /\ ms_ret.score = 60
    /\ metric_score("roa", 10) = 100

\* the metrics for which a lower value is the healthier one
LowerIsHealthier == {"pe_ratio", "price_to_book", "debt_to_equity"}

\* the metrics for which a higher value is the healthier one
HigherIsHealthier ==
    {"current_ratio", "roe", "roa", "profit_margins", "revenue_growth",
     "earnings_growth"}

\* the numeric values tried for a metric
NumericValues(key) == ScoreMetricValues(key) \ {NotNumber}

\* C22 as stated: each fundamental sub-score function is monotone in its
\* metric over the whole input range, in the direction of the healthier
\* value: non-increasing in the metric for PE ratio, price/book and
\* debt/equity, and non-decreasing for current ratio, ROE, ROA, profit
\* margin and growth.
C22_SubScoresMonotone ==
    (op = "metric_score" /\ Numeric(ms_arg.value)) =>
        \A w \in NumericValues(ms_arg.key) :
            ms_arg.value <= w =>
                /\ ms_arg.key \in LowerIsHealthier =>
                       metric_score(ms_arg.key, w) <= ms_ret.score
                /\ ms_arg.key \in HigherIsHealthier =>
                       ms_ret.score <= metric_score(ms_arg.key, w)

\* the values of a metric on which its sub-score is monotone
MonotoneRange(key, v) ==
    CASE key \in {"pe_ratio", "price_to_book"} -> v > 0
      [] key = "debt_to_equity" -> v >= 0
      [] OTHER -> TRUE

\* C22 amended: the sub-score is non-increasing in the metric for PE ratio
\* and price/book over the positive values and for debt/equity over the
\* non-negative values (a non-positive PE or price/book and a negative
\* debt/equity score 0), and non-decreasing over the whole input range for
\* current ratio, ROE, ROA, profit margin and growth.
C22_SubScoresMonotoneWherePositive ==
    (op = "metric_score" /\ Numeric(ms_arg.value)
       /\ MonotoneRange(ms_arg.key, ms_arg.value)) =>
        \A w \in NumericValues(ms_arg.key) :
            ms_arg.value <= w =>
                /\ ms_arg.key \in LowerIsHealthier =>
                       metric_score(ms_arg.key, w) <= ms_ret.score
                /\ ms_arg.key \in HigherIsHealthier =>
                       ms_ret.score <= metric_score(ms_arg.key, w)

\* _score_pe_ratio was called with 35.0 and returned 60, strictly more than
\* the 40 it returns for 35.01 and strictly less than the 80 for 25.0.
C22_Witness ==
    /\ op = "metric_score"
    /\ ms_arg = [key |-> "pe_ratio", value |-> 3500]
    /\ ms_ret.score = 60
    /\ metric_score("pe_ratio", 3501) = 40
    /\ metric_score("pe_ratio", 2500) = 80

(***************************************************************************)
(* Properties of the technical scorer                                      *)
(***************************************************************************)
\* the indicator values a category scorer reads at the latest bar
DependsOn(category) ==
    CASE category = "momentum" -> {"rsi", "macd", "macd_signal"}
      [] category = "volatility" -> {"bb_position", "atr", "avg_atr"}
      [] category = "volume" -> {"avg_volume", "obv_trend"}
      [] OTHER -> {}

\* an indicator the category depends on is undefined at the latest bar
UndefinedFor(data, category) ==
    \E field \in DependsOn(category) : data[field] = NaN

LastTen(data) == data.closes_before \o <<data.close>>

\* the number of positions j in 0..4 for which the j-th of the last five
\* closes exceeds the j-th of the five closes before them
RisingPositions(data) ==
    Cardinality({j \in 1..5 : LastTen(data)[5 + j] > LastTen(data)[j]})

\* 20 x [close > SMA20] + 20 x [close > SMA50] + 20 x [SMA20 > SMA50]
\* + 40 x k / 5
ClaimedTrend(data) ==
    (IF GT(data.close, data.sma_20) THEN 20 ELSE 0)
    + (IF GT(data.close, data.sma_50) THEN 20 ELSE 0)
    + (IF GT(data.sma_20, data.sma_50) THEN 20 ELSE 0)
    + 8 * RisingPositions(data)

\* C24: for a series of at least 50 bars (with its moving averages), the raw
\* trend score is 20 x [close > SMA20] + 20 x [close > SMA50]
\* + 20 x [SMA20 > SMA50] + 40 x k/5, where k is the number of positions j
\* in 0..4 for which the j-th of the last five closes exceeds the j-th of
\* the five closes before them; the trend entry of the breakdown is this
\* value x 0.30.
C24_TrendScoreFormula ==
    /\ (op = "category_score" /\ cs_arg.category = "trend"
          /\ cs_arg.data.len >= 50 /\ HasSMA(cs_arg.data)) =>
           cs_ret.score = ClaimedTrend(cs_arg.data)
    /\ (op = "technical_score" /\ td_arg.len >= 50 /\ HasSMA(td_arg)) =>
           /\ "trend" \in DOMAIN td_ret.scores
           /\ 100 * td_ret.scores["trend"] = 30 * ClaimedTrend(td_arg) * Scale

\* every indicator column was added and holds a value at the last bar
AllDefined(data) ==
    /\ data.cols = 7
    /\ data.len >= 10
    /\ \A field \in DOMAIN data \ {"closes_before"} : data[field] # NaN

\* 18 <= total <= 88.75
InClaimedTechnicalRange(total) ==
    /\ 18 * Scale <= total
    /\ 4 * total <= 355 * Scale

\* C25: for a series of at least 50 bars whose indicators are all defined at
\* the last bar, the technical_score total is at least 18 (hence strictly
\* positive) and at most 88.75, so the cap at 100 never takes effect and
\* overall_score never exceeds 0.6 x 100 + 0.4 x 88.75 = 95.5.
C25_TechnicalTotalRange ==
    /\ (op = "technical_score" /\ td_arg.len >= 50 /\ AllDefined(td_arg)) =>
           InClaimedTechnicalRange(td_ret.total)
    /\ op = "analyze_stock" =>
           /\ 2 * analysis.overall_score <= 191 * Scale
           /\ (an_arg.technical_data.len >= 50
                 /\ AllDefined(an_arg.technical_data)) =>
                  InClaimedTechnicalRange(analysis.technical_score)

(***************************************************************************)
(* Properties of short price histories                                     *)
(***************************************************************************)
\* an analysis made from a non-empty price history of fewer than 50 bars
ShortHistory(a) ==
    /\ DOMAIN a.technical_data # {}
    /\ a.technical_data.len > 0
    /\ a.technical_data.len < 50

\* C26: for a symbol with a non-empty price history of fewer than 50 bars,
\* technical_score is 0 and signals is empty, so overall_score is 0.6 x
\* fundamental_score and at most 60: the stock is never recommended BUY or
\* STRONG_BUY, and it passes the score gate of the screener only when its
\* fundamental score is exactly 100.
C26_ShortHistoryNeverBought ==
    /\ (op = "analyze_stock" /\ ShortHistory(analysis)) =>
           /\ analysis.technical_score = 0
           /\ analysis.signals = <<>>
           /\ 10 * analysis.overall_score = 6 * analysis.fundamental_score
           /\ analysis.overall_score <= 60 * Scale
           /\ analysis.recommendation \notin {"BUY", "STRONG_BUY"}
           /\ analysis.overall_score >= 60 * Scale
                  <=> analysis.fundamental_score = 100 * Scale
    /\ op = "screen_stocks" =>
           \A p \in 1..Len(sc_ret.screened) :
               ShortHistory(sc_ret.screened[p]) =>
                   /\ sc_ret.screened[p].fundamental_score = 100 * Scale
                   /\ sc_ret.screened[p].technical_score = 0
                   /\ sc_ret.screened[p].signals = <<>>

\* screen_stocks returned a stock analysed from 49 bars.
C26_Witness ==
    /\ op = "screen_stocks"
    /\ \E p \in 1..Len(sc_ret.screened) :
          /\ sc_ret.screened[p].technical_data.len = 49
          /\ sc_ret.screened[p].fundamental_score = 100 * Scale
          /\ sc_ret.screened[p].recommendation = "HOLD"

\* the result analyze_stock returns for a symbol without price history
ZeroValued(a) ==
    /\ DOMAIN a.technical_data = {}
    /\ a.overall_score = 0
    /\ a.fundamental_score = 0
    /\ a.technical_score = 0

\* C27: every stock returned by screen_stocks has a recommendation in
\* {HOLD, BUY, STRONG_BUY}: the screener keeps only overall_score >= 60, so
\* no returned stock is SELL or STRONG_SELL, and none is the zero-valued
\* result of an empty price history.
C27_ScreenedAreHoldOrBetter ==
    op = "screen_stocks" =>
        \A p \in 1..Len(sc_ret.screened) :
            /\ sc_ret.screened[p].recommendation \in {"HOLD", "BUY", "STRONG_BUY"}
            /\ sc_ret.screened[p].overall_score >= 60 * Scale
            /\ ~ZeroValued(sc_ret.screened[p])

\* screen_stocks was given a large, liquid company without price history
\* and one with it, and returned only the second.
C27_Witness ==
    /\ op = "screen_stocks"
    /\ Len(sc_arg) = 2
    /\ sc_arg[1].fundamental_data = PerfectMetrics
    /\ sc_arg[1].technical_data.len = 0
    /\ sc_arg[2].fundamental_data = PerfectMetrics
    /\ Len(sc_ret.screened) = 1
    /\ sc_ret.screened[1].symbol = 2
    /\ sc_ret.screened[1].recommendation = "HOLD"

(***************************************************************************)
(* Properties relating a total to its breakdown                            *)
(***************************************************************************)
\* the sum of the values of a breakdown whose keys are among those of order
BreakdownSum(scores, order) ==
    SumFirst([i \in 1..Len(order) |-> Get(scores, order[i], 0)], Len(order))

\* C28: for both fundamental_score and technical_score the returned total
\* equals min(100, sum of the values in the returned breakdown), also when
\* an error interrupts the scoring partway and only the categories computed
\* before the error are in the breakdown.
C28_TotalIsCappedBreakdownSum ==
    /\ op = "fundamental_score" =>
           /\ DOMAIN fd_ret.scores \subseteq DOMAIN fundamental_weights
           /\ fd_ret.total
                = Min2(100 * Scale, BreakdownSum(fd_ret.scores, fundamental_order))
    /\ op = "technical_score" =>
           /\ DOMAIN td_ret.scores \subseteq DOMAIN technical_weights
           /\ td_ret.total
                = Min2(100 * Scale, BreakdownSum(td_ret.scores, technical_order))

\* fundamental_score was interrupted at the risk category by a beta that is
\* not a number: four categories are in the breakdown and make the total.
C28_Witness ==
    /\ op = "fundamental_score"
    /\ Get(fd_arg, "beta", 0) = NotNumber
    /\ DOMAIN fd_ret.scores
          = {"valuation", "financial_health", "profitability", "growth"}
    /\ fd_ret.total = 90 * Scale

(***************************************************************************)
(* Properties of the portfolio recommendations on empty inputs            *)
(***************************************************************************)
\* np.mean meets only numbers among the betas of top_stocks[:10]
BetasAreNumbers(tickers) ==
    \A i \in 1..Min2(10, Len(tickers)) :
       BetaOf(StockOf(i, tickers[i])) # NotNumber

\* C29: generate_portfolio_recommendations does not fail on empty inputs.
\* With an empty sector_analysis the zero total weight divides nothing and
\* the sector_allocation returned is empty; with an empty top_stocks the
\* risk_assessment returned is empty (no portfolio_beta, no risk_level) and
\* so is top_stocks.
C29_EmptyInputsNeverFail ==
    op = "generate_portfolio_recommendations" =>
        /\ (Len(pf_arg.sector_analysis) = 0 /\ BetasAreNumbers(pf_arg.tickers)) =>
               /\ ~pf_ret.raised
               /\ pf_ret.sector_allocation = <<>>
        /\ Len(pf_arg.tickers) = 0 =>
               /\ ~pf_ret.raised
               /\ pf_ret.risk_assessment = <<>>
               /\ pf_ret.top_stocks = <<>>

\* the call with no stock and no sector returned
C29_Witness ==
    /\ op = "generate_portfolio_recommendations"
    /\ Len(pf_arg.tickers) = 0
    /\ Len(pf_arg.sector_analysis) = 0
    /\ ~pf_ret.raised
    /\ pf_ret.sector_allocation = <<>>
    /\ pf_ret.risk_assessment = <<>>

(***************************************************************************)
(* Properties of the concurrent fetches                                    *)
(***************************************************************************)
\* the frame that the fetch of task t produced, from what the task received
OwnFrame(t) ==
    IF t.status = 200 /\ t.data.ok THEN ChartFrame(t.data) ELSE EmptyFrame

\* the tasks whose fetch produced a frame that is not empty
Productive(c) == {i \in 1..Len(c.tasks) : ~IsEmpty(OwnFrame(c.tasks[i]))}

\* C30: get_multiple_stocks_data returns a mapping that holds exactly the
\* symbols whose fetch produced a non-empty frame, each mapped to the frame
\* of its own fetch (of its last such fetch when the list names it twice),
\* in whatever order the fetches completed; a fetch that raised or gave an
\* empty frame leaves out its symbol only, and the call returns once every
\* fetch has ended.
C30_EachSymbolGetsItsOwnFrame ==
    /\ coll.pc = "done" =>
          /\ DOMAIN coll.data_dict
                = {coll.symbols[i] : i \in Productive(coll)}
          /\ \A i \in Productive(coll) :
                (\A j \in Productive(coll) :
                    coll.symbols[j] = coll.symbols[i] => j <= i)
                => coll.data_dict[coll.symbols[i]] = OwnFrame(coll.tasks[i])
    /\ (coll.pc = "gather"
          /\ \A i \in 1..Len(coll.tasks) : coll.tasks[i].pc = "done")
       => ENABLED GatherReturn

\* two symbols were fetched, the second fetch ended first with a frame and
\* the first one later with another frame, and both are returned
C30_Witness ==
    /\ coll.pc = "done"
    /\ coll.symbols = <<"AAPL", "MSFT">>
    /\ coll.completed = <<2, 1>>
    /\ coll.data_dict = [symbol \in {"AAPL", "MSFT"} |->
                            IF symbol = "AAPL" THEN [Close |-> <<101>>]
                            ELSE [Close |-> <<102, 103>>]]

====
